---- MODULE Spec2Model ----
(***************************************************************************)
(* A model of shallowflow-api: the option manager and the variable store  *)
(* (config.py, vars.py, serialization/vars.py) and the actor life cycle    *)
(* (actor.py, control.py, director.py, sink.py, transformer.py).           *)
(*                                                                         *)
(* Python values are records: None is [none |-> TRUE], a str is            *)
(* [s |-> <<chars>>], an int is [i |-> n], a bool is [b |-> TRUE/FALSE].   *)
(* Strings are sequences of one-character strings, so that the string      *)
(* functions of vars.py are computed and not assumed.                      *)
(***************************************************************************)
EXTENDS Integers, Sequences, FiniteSets, TLC

VARIABLES
    \* ---- the option manager under test (config.py, OptionManager) ----
    om_values,      \* OptionManager._values: option name -> literal override
    om_var,         \* Option.var of every declared option: None or variable name
    om_data,        \* Variables._data of the attached variable store
    om_ret,         \* what the last call returned or raised
    om_hist,        \* per option: progress of "bind, then undefine the variable"
    \* ---- the actor tree (actor.py, control.py, director.py) ----
    parent,             \* Actor._parent
    stopped,            \* Actor._stopped
    log_prefix,         \* Actor._log_prefix (cache of the full name)
    variables_changed,  \* Actor._variables_changed
    variables_detected, \* Actor._variables_detected
    input,              \* AbstractSimpleSink._input / AbstractSimpleTransformer._input
    output,             \* AbstractSimpleTransformer._output
    director,           \* ActorHandler._director
    opt_var,            \* per actor: Option.var of its options
    opt_values,         \* per actor: OptionManager._values
    def_actors,         \* per handler: the list that is def_value of "actors"
    vstore,             \* per actor: which Variables object option_manager._variables is
    vdata,              \* per Variables object: _data
    vlisteners,         \* per Variables object: _listeners
    last,               \* the last host call: what ran, in which order, and its result
    \* ---- a flow with reference pools and a callable actor (callable.py) ----
    c_name,         \* per actor of the flow: what Actor.name answers
    c_info,         \* per handler: actor_handler_info.can_contain_standalones
    c_om,           \* the callable actor's option manager
    c_data,         \* Variables._data of the callable actor's store
    c_ref,          \* the callable actor's fields
    c_last,         \* the last call on the flow and what it returned
    \* ---- a Variables object with listeners (vars.py) ----
    s_data,         \* Variables._data
    s_listeners,    \* Variables._listeners
    s_events,       \* per listener: the events its variables_changed received
    s_last,         \* the last call on the store and what it returned
    \* ---- one call of expand (vars.py) ----
    e_data,         \* Variables._data of the store expand reads
    e_s,            \* the argument s
    e_result,       \* the local variable result
    e_passes,       \* how often the loop of expand called _do_expand
    e_pc,           \* where the call is: "idle", "loop" or "returned"
    \* ---- a Variables and a Storage object given the same calls ----
    tv_data,        \* Variables._data
    tv_listeners,   \* Variables._listeners
    tv_sent,        \* per listener: the callbacks the last call invoked on it
    tv_ret,         \* what the last call on the Variables object returned
    ts_data,        \* Storage._data
    ts_listeners,   \* Storage._listeners
    ts_sent,        \* per listener: the callbacks the last call invoked on it
    ts_ret,         \* what the last call on the Storage object returned
    t_call,         \* the last call and its argument
    \* ---- an option handler holding other option handlers (config.py) ----
    dt_var,         \* per object: Option.var of its options
    dt_values,      \* per object: OptionManager._values
    dt_last,        \* the last call on the outer handler and what it returned
    \* ---- a handler with a source, a transformer and a sink (director.py) ----
    q_items,        \* what the source's _do_execute puts into its _output
    q_out,          \* per producer: AbstractSimpleSource._output / the transformer's
    q_in,           \* per consumer: _input
    q_collected,    \* what the sink's _do_execute collected
    q_stopped,      \* AbstractDirector._stopped
    q_pc,           \* where the director's execute is
    q_ret,          \* what the director's execute returned
    \* ---- the registry of string readers (serialization/vars.py) ----
    r_readers,      \* STRING_READERS
    r_cache,        \* STRING_READERS_CACHE
    r_last          \* the last call on the registry and what it returned

omvars == <<om_values, om_var, om_data, om_ret, om_hist>>
actorvars == <<parent, stopped, log_prefix, variables_changed, variables_detected,
               input, output, director, opt_var, opt_values, def_actors, vstore,
               vdata, vlisteners, last>>
callvars == <<c_name, c_info, c_om, c_data, c_ref, c_last>>
storevars == <<s_data, s_listeners, s_events, s_last>>
expandvars == <<e_data, e_s, e_result, e_passes, e_pc>>
twinvars == <<tv_data, tv_listeners, tv_sent, tv_ret,
              ts_data, ts_listeners, ts_sent, ts_ret, t_call>>
detectvars == <<dt_var, dt_values, dt_last>>
seqvars == <<q_items, q_out, q_in, q_collected, q_stopped, q_pc, q_ret>>
readervars == <<r_readers, r_cache, r_last>>
restvars == <<callvars, storevars, expandvars, twinvars, detectvars, seqvars, readervars>>
vars == <<omvars, actorvars, restvars>>

----------------------------------------------------------------------------
(* Python values *)

None == [none |-> TRUE]
PyStr(chars) == [s |-> chars]
PyInt(n) == [i |-> n]
PyBool(v) == [b |-> v]
PyList(items) == [l |-> items]
Raised(what) == [exc |-> what]

IsNone(v) == DOMAIN v = {"none"}
IsStr(v) == DOMAIN v = {"s"}
IsInt(v) == DOMAIN v = {"i"}
IsBool(v) == DOMAIN v = {"b"}
IsList(v) == DOMAIN v = {"l"}
IsRaised(v) == DOMAIN v = {"exc"}

\* the number a numeric value compares as (a bool is an int in Python)
NumOf(v) == IF IsBool(v) THEN (IF v.b THEN 1 ELSE 0) ELSE v.i

\* isinstance(value, cls) for the classes of the model
isinstance(v, cls) ==
    CASE cls = "str" -> IsStr(v)
      [] cls = "bool" -> IsBool(v)
      [] cls = "int" -> IsInt(v) \/ IsBool(v)
      [] cls = "list" -> IsList(v)
      [] cls = "CallableActorReference" -> IsStr(v)   \* the host passes the class
      [] cls = "AbstractBooleanCondition" -> DOMAIN v = {"obj"}
      [] cls = "Actor" -> DOMAIN v = {"cls", "values", "var", "data"}
      [] OTHER -> FALSE

\* issubclass(cls, base) for the classes of the model
issubclass(cls, base) ==
    \/ cls = base
    \/ cls = "bool" /\ base = "int"
    \/ cls = "CallableActorReference" /\ base = "str"
    \/ cls \in {"Actor", "AbstractBooleanCondition"} /\ base = "AbstractOptionHandler"

----------------------------------------------------------------------------
(* vars.py: names and padded references *)

VALID_CHARS ==
    {"a","b","c","d","e","f","g","h","i","j","k","l","m","n","o","p","q","r",
     "s","t","u","v","w","x","y","z","A","B","C","D","E","F","G","H","I","J",
     "K","L","M","N","O","P","Q","R","S","T","U","V","W","X","Y","Z","0","1",
     "2","3","4","5","6","7","8","9","-","_"}

VAR_START == <<"@", "{">>

VAR_END == <<"}">>

is_valid_name(chars) == \A k \in 1..Len(chars) : chars[k] \in VALID_CHARS

startswith(chars, prefix) ==
    /\ Len(chars) >= Len(prefix)
    /\ SubSeq(chars, 1, Len(prefix)) = prefix

endswith(chars, suffix) ==
    /\ Len(chars) >= Len(suffix)
    /\ SubSeq(chars, Len(chars) - Len(suffix) + 1, Len(chars)) = suffix

\* is_var takes any value: only a str can be a padded reference
is_var(v) == IsStr(v) /\ startswith(v.s, VAR_START) /\ endswith(v.s, VAR_END)

pad_var(chars) == VAR_START \o chars \o VAR_END

\* Python's slice s[2:len(s)-1] is empty when the bounds cross ("@{}" and "@}")
unpad_var(v) ==
    IF is_var(v)
    THEN SubSeq(v.s, Len(VAR_START) + 1, Len(v.s) - Len(VAR_END))
    ELSE v.s

----------------------------------------------------------------------------
(* serialization/vars.py: the string readers *)

Digits == {"0","1","2","3","4","5","6","7","8","9"}

DigitVal(c) ==
    CASE c = "0" -> 0 [] c = "1" -> 1 [] c = "2" -> 2 [] c = "3" -> 3
      [] c = "4" -> 4 [] c = "5" -> 5 [] c = "6" -> 6 [] c = "7" -> 7
      [] c = "8" -> 8 [] c = "9" -> 9

RECURSIVE DigitsVal(_)
DigitsVal(chars) ==
    IF chars = <<>> THEN 0
    ELSE DigitsVal(SubSeq(chars, 1, Len(chars) - 1)) * 10 + DigitVal(chars[Len(chars)])

AllDigits(chars) == Len(chars) > 0 /\ \A k \in 1..Len(chars) : chars[k] \in Digits

\* int(s) of Python on the strings of the model: an optional sign and digits
py_int(chars) ==
    IF AllDigits(chars) THEN PyInt(DigitsVal(chars))
    ELSE IF Len(chars) > 1 /\ chars[1] = "-" /\ AllDigits(Tail(chars))
         THEN PyInt(0 - DigitsVal(Tail(chars)))
    ELSE IF Len(chars) > 1 /\ chars[1] = "+" /\ AllDigits(Tail(chars))
         THEN PyInt(DigitsVal(Tail(chars)))
    ELSE Raised("ValueError")

\* the readers in the order the modules register them
STRING_READERS ==
    <<"StringReader", "BoolStringReader", "IntStringReader",
      "FloatStringReader", "ListStringReader",
      "CallableActorReferenceStringReader">>

handles(reader, cls) ==
    CASE reader = "StringReader" -> issubclass(cls, "str")
      [] reader = "BoolStringReader" -> issubclass(cls, "bool")
      [] reader = "IntStringReader" -> issubclass(cls, "int")
      [] reader = "FloatStringReader" -> issubclass(cls, "float")
      [] reader = "ListStringReader" -> issubclass(cls, "list")
      [] reader = "CallableActorReferenceStringReader" ->
            issubclass(cls, "CallableActorReference")
      [] reader = "OptionHandlerStringReader" ->
            issubclass(cls, "AbstractOptionHandler")

\* convert(s) of each reader; the stored value is a str
convert(reader, v) ==
    CASE reader = "StringReader" -> PyStr(v.s)
      [] reader = "BoolStringReader" -> PyBool(Len(v.s) > 0)
      [] reader = "IntStringReader" -> py_int(v.s)
      [] reader = "CallableActorReferenceStringReader" -> PyStr(v.s)
      [] OTHER -> Raised("not modelled")

\* the loop of get_string_reader over the registered readers: the first
\* one, StringReader excepted, that handles the class; then StringReader;
\* then none ("" stands for None)
find_string_reader(readers, cls) ==
    LET cand == {k \in 1..Len(readers) :
                    /\ readers[k] # "StringReader"
                    /\ handles(readers[k], cls)}
    IN  IF cand # {}
        THEN readers[CHOOSE k \in cand : \A m \in cand : k <= m]
        ELSE IF handles("StringReader", cls) THEN "StringReader"
        ELSE ""

\* get_string_reader once all modules are imported and nothing was looked
\* up before
get_string_reader(cls) == find_string_reader(STRING_READERS, cls)

DigitChar(d) ==
    CASE d = 0 -> "0" [] d = 1 -> "1" [] d = 2 -> "2" [] d = 3 -> "3"
      [] d = 4 -> "4" [] d = 5 -> "5" [] d = 6 -> "6" [] d = 7 -> "7"
      [] d = 8 -> "8" [] d = 9 -> "9"

RECURSIVE py_str(_)
\* str(i) for a natural number
py_str(n) ==
    IF n < 10 THEN <<DigitChar(n)>>
    ELSE py_str(n \div 10) \o <<DigitChar(n % 10)>>

----------------------------------------------------------------------------
(* vars.py: the Variables store.  _data is a function from the names that  *)
(* are set to their values.                                                *)

Variables_has(data, key) ==
    IF ~is_valid_name(key) THEN Raised("Invalid variable name")
    ELSE PyBool(key \in DOMAIN data)

Variables_get(data, key) ==
    IF ~is_valid_name(key) THEN Raised("Invalid variable name")
    ELSE IF key \in DOMAIN data THEN data[key]
    ELSE None

\* the entries after set(key, value) (the events are with the actors, below)
data_set(data, key, value) ==
    [k \in DOMAIN data \cup {key} |-> IF k = key THEN value ELSE data[k]]

data_remove(data, key) == [k \in DOMAIN data \ {key} |-> data[k]]

EmptyMap == [k \in {} |-> None]

----------------------------------------------------------------------------
(* config.py: Option and OptionManager.  A manager is a record            *)
(* [values |-> _values, var |-> option name -> Option.var].  The options   *)
(* are declared once, in _define_options, and never change.                *)

Option(name, value_type, def_value, base_type, lower, upper) ==
    [name |-> name, value_type |-> value_type, def_value |-> def_value,
     base_type |-> base_type, lower |-> lower, upper |-> upper]

\* a bound check that takes the bounds as exclusive
is_in_range_exclusive(opt, value) ==
    IF ~IsNone(opt.lower) /\ NumOf(value) <= NumOf(opt.lower) THEN PyStr(<<"Below lower bound">>)
    ELSE IF ~IsNone(opt.upper) /\ NumOf(value) >= NumOf(opt.upper) THEN PyStr(<<"Above upper bound">>)
    ELSE None

is_in_range(opt, value) ==
    IF ~IsNone(opt.lower) /\ NumOf(value) < NumOf(opt.lower) THEN PyStr(<<"Below lower bound">>)
    ELSE IF ~IsNone(opt.upper) /\ NumOf(value) > NumOf(opt.upper) THEN PyStr(<<"Above upper bound">>)
    ELSE None

\* the options of a manager: a sequence, in the order they were added
OptionNames(options) == {options[k].name : k \in 1..Len(options)}

OptionOf(options, name) ==
    options[CHOOSE k \in 1..Len(options) : options[k].name = name]

OM_has(options, name) == name \in OptionNames(options)

OM_has_var(options, om, name) == OM_has(options, name) /\ ~IsNone(om.var[name])

\* a set that drops the literal override when it binds a variable
OptionManager_set_unbinding(options, om, name, value) ==
    IF ~OM_has(options, name) THEN [om |-> om, ret |-> Raised("TypeError")]
    ELSE LET opt == OptionOf(options, name) IN
         IF is_var(value)
         THEN [om |-> [om EXCEPT !.var[name] = PyStr(unpad_var(value)),
                                 !.values = data_remove(om.values, name)],
               ret |-> None]
         ELSE IF ~isinstance(value, opt.value_type)
              THEN [om |-> om, ret |-> Raised("Invalid config type")]
         ELSE IF ~IsNone(is_in_range(opt, value))
              THEN [om |-> om, ret |-> Raised("Invalid value")]
         ELSE [om |-> [om EXCEPT !.values = data_set(om.values, name, value)],
               ret |-> None]

\* OptionManager.set: returns the manager and what the call returned or raised
OptionManager_set(options, om, name, value) ==
    IF ~OM_has(options, name) THEN [om |-> om, ret |-> Raised("TypeError")]
    ELSE LET opt == OptionOf(options, name) IN
         IF is_var(value)
         THEN [om |-> [om EXCEPT !.var[name] = PyStr(unpad_var(value))], ret |-> None]
         ELSE IF ~isinstance(value, opt.value_type)
              THEN [om |-> om, ret |-> Raised("Invalid config type")]
         ELSE IF ~IsNone(is_in_range(opt, value))
              THEN [om |-> om, ret |-> Raised("Invalid value")]
         ELSE [om |-> [om EXCEPT !.values = data_set(om.values, name, value)],
               ret |-> None]

\* a get that prefers the literal override to the bound variable
OptionManager_get_override_first(options, om, data, name) ==
    IF ~OM_has(options, name) THEN None
    ELSE LET opt == OptionOf(options, name)
             has == IF OM_has_var(options, om, name)
                    THEN Variables_has(data, om.var[name].s)
                    ELSE PyBool(FALSE)
         IN  IF name \in DOMAIN om.values THEN om.values[name]
             ELSE IF IsRaised(has) THEN has
             ELSE IF has.b
                  THEN convert(get_string_reader(opt.value_type),
                               Variables_get(data, om.var[name].s))
             ELSE opt.def_value

\* OptionManager.get: the value, or what it raised
OptionManager_get(options, om, data, name) ==
    IF ~OM_has(options, name) THEN None
    ELSE LET opt == OptionOf(options, name)
             has == IF OM_has_var(options, om, name)
                    THEN Variables_has(data, om.var[name].s)
                    ELSE PyBool(FALSE)
             stored == IF name \in DOMAIN om.values THEN om.values[name]
                       ELSE opt.def_value
         IN  IF IsRaised(has) THEN has
             ELSE IF has.b
                  THEN LET value == Variables_get(data, om.var[name].s)
                           r1 == get_string_reader(opt.value_type)
                           reader == IF r1 = "" /\ ~IsNone(opt.base_type)
                                     THEN get_string_reader(opt.base_type.cls)
                                     ELSE r1
                       IN  IF reader # "" THEN convert(reader, value)
                           ELSE stored
             ELSE stored

OptionManager_set_var(options, om, name, var) ==
    IF ~OM_has(options, name) THEN [om |-> om, ret |-> Raised("Unknown option")]
    ELSE IF ~is_valid_name(var) THEN [om |-> om, ret |-> Raised("Invalid variable name")]
    ELSE [om |-> [om EXCEPT !.var[name] = PyStr(var)], ret |-> None]

OptionManager_remove_var(options, om, name) ==
    IF ~OM_has(options, name) THEN [om |-> om, ret |-> Raised("Unknown option")]
    ELSE [om |-> [om EXCEPT !.var[name] = None], ret |-> None]

OptionManager_reset(om) == [om EXCEPT !.values = EmptyMap]

\* a dict: its items as <<key, value>> pairs, in insertion order
PyDict(pairs) == [d |-> pairs]

IsDict(v) == DOMAIN v = {"d"}

dict_has(pairs, k) == \E n \in 1..Len(pairs) : pairs[n][1] = k

dict_get(pairs, k) == pairs[CHOOSE n \in 1..Len(pairs) : pairs[n][1] = k][2]

\* Actor._define_options, after AbstractOptionHandler._define_options
ACTOR_OPTIONS ==
    << Option("debug", "bool", PyBool(FALSE), None, None, None),
       Option("skip", "bool", PyBool(FALSE), None, None, None),
       Option("annotation", "str", PyStr(<<>>), None, None, None),
       Option("name", "str", PyStr(<<>>), None, None, None),
       Option("stop_flow_on_error", "bool", PyBool(TRUE), None, None, None) >>

\* _define_options of a class, as its constructor runs it
define_options(cls) ==
    IF cls = "ActorHandler"
    THEN ACTOR_OPTIONS \o
         << Option("actors", "list", PyList(<<>>), [cls |-> "Actor"], None, None) >>
    ELSE ACTOR_OPTIONS

\* cls(): a new option handler, with its own manager and its own store
new_handler(cls) ==
    [cls |-> cls, values |-> EmptyMap,
     var |-> [n \in OptionNames(define_options(cls)) |-> None], data |-> EmptyMap]

\* get_class_name and class_name_to_type (class_utils.py)
CLASS_NAMES == {"Actor", "ActorHandler"}

get_class_name(a) ==
    IF a.cls = "Actor" THEN PyStr(<<"a", "p", "i", ".", "A">>)
    ELSE PyStr(<<"a", "p", "i", ".", "H">>)

class_name_to_type(name) ==
    IF \E c \in CLASS_NAMES : get_class_name([cls |-> c]) = name
    THEN CHOOSE c \in CLASS_NAMES : get_class_name([cls |-> c]) = name
    ELSE ""

\* serialization/objects.py: the classes a dict reader and a dict writer are
\* registered for (config.py, actor.py, condition.py)
DICT_READERS == {"AbstractOptionHandler", "Actor", "AbstractBooleanCondition"}

DICT_WRITERS == {"AbstractOptionHandler", "Actor", "AbstractBooleanCondition"}

has_dict_reader(cls) == cls \in DICT_READERS

has_dict_writer(cls) == cls \in DICT_WRITERS

\* the first exception among the items of a list, or None
RECURSIVE first_raised(_)
first_raised(items) ==
    IF items = <<>> THEN None
    ELSE IF IsRaised(items[1]) THEN items[1]
    ELSE first_raised(Tail(items))

RECURSIVE from_dict_key(_, _, _, _, _)
RECURSIVE OptionManager_from_dict(_, _, _, _)
RECURSIVE dict_to_optionhandler(_)

\* a from_dict whose unknown key ends the call with an exception
from_dict_key_strict(options, om, data, k, v) ==
    IF ~OM_has(options, k) THEN [om |-> om, ret |-> Raised("Unknown option")]
    ELSE IF IsStr(v) /\ is_var(v)
         THEN [om |-> [om EXCEPT !.var[k] = PyStr(unpad_var(v))], ret |-> None]
    ELSE OptionManager_set(options, om, k, v)

\* set(k, l) for the list from_dict built, unless building an item raised
set_list(options, om, k, l) ==
    IF IsNone(first_raised(l)) THEN OptionManager_set(options, om, k, PyList(l))
    ELSE [om |-> om, ret |-> first_raised(l)]

\* set(k, o) for the object a dict reader built, unless the reader raised
set_read(options, om, k, o) ==
    IF IsRaised(o) THEN [om |-> om, ret |-> o]
    ELSE OptionManager_set(options, om, k, o)

\* the last step of from_dict: set(k, w) if get(k) has the option's type
set_checked(options, om, k, w, cur) ==
    IF IsRaised(w) THEN [om |-> om, ret |-> w]
    ELSE IF IsRaised(cur) THEN [om |-> om, ret |-> cur]
    ELSE IF isinstance(cur, OptionOf(options, k).value_type)
         THEN OptionManager_set(options, om, k, w)
    ELSE [om |-> om, ret |-> None]

\* one key of from_dict (no from_dict handler is registered in the package)
from_dict_key(options, om, data, k, v) ==
    IF ~OM_has(options, k) THEN [om |-> om, ret |-> None]
    ELSE IF IsStr(v) /\ is_var(v)
    THEN [om |-> [om EXCEPT !.var[k] = PyStr(unpad_var(v))], ret |-> None]
    ELSE IF IsList(v) /\ ~IsNone(OptionOf(options, k).base_type)
    THEN set_list(options, om, k,
                  IF has_dict_reader(OptionOf(options, k).base_type.cls)
                  THEN [n \in 1..Len(v.l) |->
                           IF isinstance(v.l[n], OptionOf(options, k).base_type.cls)
                           THEN v.l[n]
                           ELSE dict_to_optionhandler(v.l[n])]
                  ELSE [n \in 1..Len(v.l) |->
                           IF IsStr(v.l[n]) /\ OptionOf(options, k).base_type.cls = "int"
                           THEN py_int(v.l[n].s)
                           ELSE v.l[n]])
    ELSE IF has_dict_reader(OptionOf(options, k).value_type)
    THEN IF isinstance(v, OptionOf(options, k).value_type)
         THEN OptionManager_set(options, om, k, v)
         ELSE set_read(options, om, k, dict_to_optionhandler(v))
    ELSE set_checked(options, om, k,
                     IF IsStr(v) /\ OptionOf(options, k).value_type # "str"
                     THEN (IF OptionOf(options, k).value_type = "int" THEN py_int(v.s)
                           ELSE PyBool(Len(v.s) > 0))
                     ELSE v,
                     OptionManager_get(options, om, data, k))

\* the keys after the first: an exception ends the call and keeps what the
\* earlier keys did
from_dict_rest(options, r, data, rest) ==
    IF IsRaised(r.ret) THEN r
    ELSE OptionManager_from_dict(options, r.om, data, rest)

\* OptionManager.from_dict: the keys in the dictionary's order
OptionManager_from_dict(options, om, data, d) ==
    IF d = <<>> THEN [om |-> om, ret |-> None]
    ELSE from_dict_rest(options, from_dict_key(options, om, data, d[1][1], d[1][2]),
                        data, Tail(d))

\* the object after from_dict, or the exception from_dict raised
handler_after(a, r) ==
    IF IsRaised(r.ret) THEN r.ret
    ELSE [a EXCEPT !.values = r.om.values, !.var = r.om.var]

\* the options setter of AbstractOptionHandler: from_dict, then reset()
options_setter(a, d) ==
    handler_after(a, OptionManager_from_dict(define_options(a.cls),
                                             [values |-> a.values, var |-> a.var],
                                             a.data, d))

\* dict_to_optionhandler: a new object of the named class, then its options
dict_to_optionhandler(d) ==
    IF ~IsDict(d) THEN Raised("TypeError")
    ELSE IF ~dict_has(d.d, "class") THEN Raised("KeyError")
    ELSE IF class_name_to_type(dict_get(d.d, "class")) = "" THEN Raised("Unknown class")
    ELSE options_setter(new_handler(class_name_to_type(dict_get(d.d, "class"))),
                        IF dict_has(d.d, "options")
                        THEN dict_get(d.d, "options").d
                        ELSE <<>>)

RECURSIVE OptionManager_to_dict(_, _, _, _)
RECURSIVE optionhandler_to_dict(_)

\* the item for an option without variable whose get() returned value
to_dict_value(opt, value, skip_default) ==
    IF IsList(value) /\ ~IsNone(opt.base_type) /\ has_dict_writer(opt.base_type.cls)
    THEN << <<opt.name,
              PyList([n \in 1..Len(value.l) |-> optionhandler_to_dict(value.l[n])])>> >>
    ELSE IF has_dict_writer(opt.value_type)
    THEN << <<opt.name, optionhandler_to_dict(value)>> >>
    ELSE IF ~skip_default \/ value # opt.def_value
    THEN << <<opt.name, value>> >>
    ELSE <<>>

\* a to_dict that leaves out every option at its default, lists included
to_dict_value_minimal(opt, value, skip_default) ==
    IF skip_default /\ value = opt.def_value THEN <<>>
    ELSE IF IsList(value) /\ ~IsNone(opt.base_type) /\ has_dict_writer(opt.base_type.cls)
    THEN << <<opt.name,
              PyList([n \in 1..Len(value.l) |-> optionhandler_to_dict(value.l[n])])>> >>
    ELSE << <<opt.name, value>> >>

\* the item of one option in to_dict: no item, or one <<key, value>> pair
\* (no to_dict handler is registered in the package)
to_dict_key(opt, om, data, skip_default) ==
    IF ~IsNone(om.var[opt.name])
    THEN << <<opt.name, PyStr(pad_var(om.var[opt.name].s))>> >>
    ELSE to_dict_value(opt, OptionManager_get(<<opt>>, om, data, opt.name), skip_default)

\* OptionManager.to_dict: the options in the order they were added
OptionManager_to_dict(options, om, data, skip_default) ==
    IF options = <<>> THEN <<>>
    ELSE to_dict_key(options[1], om, data, skip_default)
         \o OptionManager_to_dict(Tail(options), om, data, skip_default)

\* the options getter of AbstractOptionHandler
options_getter(a) ==
    OptionManager_to_dict(define_options(a.cls),
                          [values |-> a.values, var |-> a.var], a.data, TRUE)

\* the dictionary optionhandler_to_dict builds from the class name and from
\* what the options getter returned
handler_dict(name, options) ==
    PyDict(<< <<"class", name>> >>
           \o IF options # <<>> THEN << <<"options", PyDict(options)>> >> ELSE <<>>)

\* optionhandler_to_dict: the class name and, unless empty, the options
optionhandler_to_dict(a) == handler_dict(get_class_name(a), options_getter(a))

----------------------------------------------------------------------------
(* The option manager under test: two options, one of them numeric with    *)
(* inclusive bounds, attached to one variable store.                       *)

MaxDict == 2

OM_OPTIONS ==
    << Option("name", "str", PyStr(<<>>), None, None, None),
       Option("num", "int", PyInt(1), None, PyInt(0), PyInt(2)) >>

\* the names the host passes: the declared ones and one that is not declared
OM_NAMES == OptionNames(OM_OPTIONS) \cup {"bogus"}

KEYS == {<<"v">>, <<"w">>}

STORE_VALUES == {PyStr(<<"x">>), PyStr(<<"2">>)}

\* what the host stores: v takes either value, w the numeral only
STORE_ENTRIES == {e \in KEYS \X STORE_VALUES : e[1] = <<"w">> => e[2] = PyStr(<<"2">>)}

REFS == {PyStr(pad_var(k)) : k \in KEYS}

SET_VALUES ==
    {PyStr(<<"x">>), PyInt(0 - 1), PyInt(0), PyInt(2), PyInt(3)} \cup REFS

\* the calls of set the host makes: every value on the numeric option; on
\* the string option a string, a number and the references; one call with a
\* name that is not declared
SET_CALLS ==
    {c \in OM_NAMES \X SET_VALUES :
        /\ c[1] = "name" => (~IsInt(c[2]) \/ c[2] = PyInt(0))
        /\ c[1] = "bogus" => c[2] = PyStr(<<"x">>)}

DICT_ENTRIES ==
    { <<"name", PyStr(pad_var(<<"v">>))>>, <<"name", PyStr(<<"x">>)>>,
      <<"num", PyStr(<<"2">>)>>, <<"num", PyInt(3)>>,
      <<"bogus", PyStr(<<"x">>)>> }

\* dictionaries: up to MaxDict entries with distinct keys, in insertion order
DICTS ==
    UNION { {d \in [1..n -> DICT_ENTRIES] :
                \A a, b \in 1..n : a # b => d[a][1] # d[b][1]} : n \in 1..MaxDict }

OMcur == [values |-> om_values, var |-> om_var]

HistIdle == [phase |-> "idle", name |-> "", ovr |-> None]

\* the variable the tracked option is bound to, if a binding is being tracked
HistKey == IF om_hist.phase = "idle" THEN None ELSE om_var[om_hist.name]

OMInit ==
    /\ om_values = EmptyMap
    /\ om_var = [n \in OptionNames(OM_OPTIONS) |-> None]
    /\ om_data = EmptyMap
    /\ om_ret = [op |-> "init", name |-> "", value |-> None, ret |-> None]
    /\ om_hist = HistIdle

OMCommit(r, op, name, value, hist) ==
    /\ om_values' = r.om.values
    /\ om_var' = r.om.var
    /\ om_ret' = [op |-> op, name |-> name, value |-> value, ret |-> r.ret]
    /\ om_hist' = hist
    /\ UNCHANGED om_data

\* host: manager.set(name, value)
OMSet(name, value) ==
    LET r == OptionManager_set(OM_OPTIONS, OMcur, name, value)
        hist == IF is_var(value) /\ IsNone(r.ret)
                THEN [phase |-> "bound", name |-> name,
                      ovr |-> IF name \in DOMAIN om_values THEN om_values[name] ELSE None]
                ELSE IF name = om_hist.name /\ r.om # OMcur THEN HistIdle
                ELSE om_hist
    IN  OMCommit(r, "set", name, value, hist)

\* host: manager.get(name)
OMGet(name) ==
    /\ om_ret' = [op |-> "get", name |-> name, value |-> None,
                  ret |-> OptionManager_get(OM_OPTIONS, OMcur, om_data, name)]
    /\ UNCHANGED <<om_values, om_var, om_data, om_hist>>

\* host: manager.set_var(name, var)
OMSetVar(name, key) ==
    LET r == OptionManager_set_var(OM_OPTIONS, OMcur, name, key)
    IN  OMCommit(r, "set_var", "", None,
                 IF name = om_hist.name /\ r.om # OMcur THEN HistIdle ELSE om_hist)

\* host: manager.remove_var(name)
OMRemoveVar(name) ==
    LET r == OptionManager_remove_var(OM_OPTIONS, OMcur, name)
    IN  OMCommit(r, "remove_var", "", None,
                 IF name = om_hist.name /\ r.om # OMcur THEN HistIdle ELSE om_hist)

\* host: manager.reset()
OMReset ==
    OMCommit([om |-> OptionManager_reset(OMcur), ret |-> None], "reset", "", None,
             IF om_values # EmptyMap THEN HistIdle ELSE om_hist)

\* host: manager.from_dict(d)
OMFromDict(d) ==
    LET r == OptionManager_from_dict(OM_OPTIONS, OMcur, om_data, d)
    IN  OMCommit(r, "from_dict", "", None,
                 IF r.om # OMcur THEN HistIdle ELSE om_hist)

\* host: manager.variables.set(key, value)
OMVarSet(key, value) ==
    /\ om_data' = data_set(om_data, key, value)
    /\ om_ret' = [op |-> "var_set", name |-> "", value |-> None, ret |-> None]
    /\ om_hist' = IF HistKey = PyStr(key) THEN HistIdle ELSE om_hist
    /\ UNCHANGED <<om_values, om_var>>

\* host: manager.variables.remove(key)
OMVarRemove(key) ==
    /\ om_data' = data_remove(om_data, key)
    /\ om_ret' = [op |-> "var_remove", name |-> "", value |-> None, ret |-> None]
    /\ om_hist' = IF /\ om_hist.phase = "bound"
                     /\ HistKey = PyStr(key)
                     /\ key \in DOMAIN om_data
                  THEN [om_hist EXCEPT !.phase = "undefined"]
                  ELSE om_hist
    /\ UNCHANGED <<om_values, om_var>>

\* host: manager.variables.clear()
OMVarClear ==
    /\ om_data' = EmptyMap
    /\ om_ret' = [op |-> "var_clear", name |-> "", value |-> None, ret |-> None]
    /\ om_hist' = IF om_hist.phase = "bound" /\ HistKey.s \in DOMAIN om_data
                  THEN [om_hist EXCEPT !.phase = "undefined"]
                  ELSE om_hist
    /\ UNCHANGED <<om_values, om_var>>

----------------------------------------------------------------------------
(* The actor tree.  H manages [S, G] and G manages [T]; S is an            *)
(* AbstractSimpleSink, T an AbstractSimpleTransformer, H and G are         *)
(* ActorHandlers.  Every actor is built with its own Variables object.     *)

Actors == {"H", "G", "S", "T"}

Handlers == {"H", "G"}

Sinks == {"S"}

Transformers == {"T"}

Consumers == Sinks \cup Transformers

Leaves == Actors \ Handlers

\* ActorHandler._define_options; def_value of "actors" is one list object
\* per handler, which append() and remove() change in place
HANDLER_OPTIONS(h) ==
    ACTOR_OPTIONS \o
    << Option("actors", "list", PyList(def_actors[h].l), [cls |-> "Actor"], None, None) >>

OptionsOf(a) == IF a \in Handlers THEN HANDLER_OPTIONS(a) ELSE ACTOR_OPTIONS

OMof(a) == [values |-> opt_values[a], var |-> opt_var[a]]

\* AbstractOptionHandler.get
Actor_get(a, name) ==
    OptionManager_get(OptionsOf(a), OMof(a), vdata[vstore[a]], name)

\* ActorHandler.actors (the getter)
actors(h) == Actor_get(h, "actors").l

\* type(self).__name__ of the concrete classes of the tree
ClassName(a) == <<a>>

\* Actor.name
Actor_name(a) ==
    LET n == Actor_get(a, "name")
    IN  IF Len(n.s) = 0 THEN ClassName(a) ELSE n.s

\* OptionManager.detect_vars(skip) of a manager whose values hold no option
\* handler outside the skipped options
detect_vars(options, om, skip) ==
    LET sel == SelectSeq(options, LAMBDA o :
                   /\ ~(o.value_type \in skip)
                   /\ ~(~IsNone(o.base_type) /\ o.base_type.cls \in skip)
                   /\ ~IsNone(om.var[o.name]))
    IN  [k \in 1..Len(sel) |-> om.var[sel[k].name].s]

----------------------------------------------------------------------------
(* The operations thread the mutable fields of all actors as one record,   *)
(* with what the running call did so far: the steps in order (trace), the  *)
(* value returned (ret), whether an exception was raised inside (exc),     *)
(* the input _do_execute found (seen) and how each step ended (outcome).   *)

NotRun == [notrun |-> TRUE]

\* how each of the three steps of execute() ended: "none" if it did not run
NoOutcome == [pre |-> "none", do |-> "none", post |-> "none"]

Kind(ret) == IF IsRaised(ret) THEN "raise" ELSE IF IsNone(ret) THEN "ok" ELSE "fail"

Cur ==
    [parent |-> parent, stopped |-> stopped, log_prefix |-> log_prefix,
     variables_changed |-> variables_changed,
     variables_detected |-> variables_detected, input |-> input,
     output |-> output, director |-> director, vlisteners |-> vlisteners,
     trace |-> <<>>, ret |-> None, exc |-> FALSE, seen |-> NotRun,
     outcome |-> NoOutcome]

Log(st, a, step) == [st EXCEPT !.trace = Append(@, <<a, step>>)]

NoDirector == [attr |-> FALSE, stopped |-> FALSE, owner |-> "none"]

\* AbstractDirector.__init__
NewDirector(h) == [attr |-> TRUE, stopped |-> FALSE, owner |-> h]

\* the part of reset() the subclasses add: the sink drops its input, the
\* transformer its input and its output
reset_own(s1, a) ==
    IF a \in Sinks THEN [s1 EXCEPT !.input[a] = None]
    ELSE IF a \in Transformers
         THEN [s1 EXCEPT !.output[a] = PyList(<<>>), !.input[a] = None]
    ELSE s1

\* Actor.reset, AbstractSimpleSink.reset, AbstractSimpleTransformer.reset
Actor_reset(st, a) ==
    Log(reset_own([st EXCEPT !.log_prefix[a] = None,
                             !.variables_changed[a] = FALSE,
                             !.variables_detected[a] = <<>>], a),
        a, "reset")

\* Actor.parent (the setter)
set_parent(st, a, p) == Actor_reset([st EXCEPT !.parent[a] = p], a)

\* Actor.setup
Actor_setup(st, a) ==
    Log([st EXCEPT !.stopped[a] = FALSE,
                   !.log_prefix[a] = None,
                   !.variables_detected[a] =
                        detect_vars(OptionsOf(a), OMof(a), {"Actor"}),
                   !.vlisteners[vstore[a]] = @ \cup {a},
                   !.ret = None],
        a, "setup")

RECURSIVE setup(_, _, _)
RECURSIVE setup_actors(_, _, _, _)
RECURSIVE setup_checks(_, _, _)
RECURSIVE setup_next(_, _, _, _)

\* the end of ActorHandler.setup: the director is created if no sub-actor
\* reported a failure
setup_director(s2, a) ==
    IF IsNone(s2.ret) THEN [s2 EXCEPT !.director[a] = NewDirector(a)] ELSE s2

\* ActorHandler.setup; for a leaf, Actor.setup followed by the subclass's own
\* checks, which fail for the leaves in F
setup(st, a, F) == setup_checks(Actor_setup(st, a), a, F)

\* a loop that goes on after a sub-actor reported a failure
setup_next_no_break(s1, h, rest, F) == setup_actors(s1, h, rest, F)

\* what follows super().setup() in setup: for a handler _check_actors, which
\* rejects the list of the handlers in F, then the loop and the director
setup_checks(s1, a, F) ==
    IF a \in Handlers
    THEN IF a \in F THEN [s1 EXCEPT !.ret = PyStr(<<"rejected">>)]
         ELSE setup_director(setup_actors(s1, a, actors(a), F), a)
    ELSE IF a \in F THEN [s1 EXCEPT !.ret = PyStr(<<"setup failed">>)]
    ELSE s1

\* the loop of ActorHandler.setup over the sub-actors
setup_actors(st, h, kids, F) ==
    IF kids = <<>> THEN st
    ELSE setup_next(setup(set_parent(st, kids[1], h), kids[1], F), h, Tail(kids), F)

\* the break of the loop at the first failure
setup_next(s1, h, rest, F) ==
    IF ~IsNone(s1.ret) THEN s1 ELSE setup_actors(s1, h, rest, F)

RECURSIVE stop_execution(_, _)
RECURSIVE stop_actors(_, _)
RECURSIVE stop_next(_, _)

\* Actor.stop_execution
Actor_stop_execution(st, a) ==
    IF st.exc THEN st ELSE [st EXCEPT !.stopped[a] = TRUE]

\* Actor.stop_execution and ActorHandler.stop_execution; reading _director
\* before the first successful setup raises AttributeError
stop_execution(st, a) ==
    IF a \in Handlers
    THEN IF ~st.director[a].attr
         THEN [st EXCEPT !.ret = Raised("AttributeError"), !.exc = TRUE]
         ELSE Actor_stop_execution(
                  stop_actors([st EXCEPT !.director[a].stopped = TRUE], actors(a)), a)
    ELSE Actor_stop_execution(st, a)

\* a loop that stops after the first sub-actor
stop_actors_first_only(st, kids) ==
    IF kids = <<>> THEN st ELSE stop_execution(st, kids[1])

\* the loop of ActorHandler.stop_execution over the sub-actors
stop_actors(st, kids) ==
    IF kids = <<>> THEN st
    ELSE stop_next(stop_execution(st, kids[1]), Tail(kids))

\* an exception raised by a sub-actor ends the loop
stop_next(s1, rest) == IF s1.exc THEN s1 ELSE stop_actors(s1, rest)

RECURSIVE wrap_up(_, _)
RECURSIVE wrap_up_actors(_, _)
RECURSIVE clean_up(_, _)
RECURSIVE clean_up_actors(_, _)

\* Actor.wrap_up: self.variables.remove_listener(self)
Actor_wrap_up(st, a) ==
    IF st.exc THEN st
    ELSE Log([st EXCEPT !.vlisteners[vstore[a]] = @ \ {a}, !.ret = None], a, "wrap_up")

\* ActorHandler.wrap_up after the loop: the director (wrap_up of a director
\* does nothing), then Actor.wrap_up; reading _director raises
\* AttributeError before the first successful setup
wrap_up_director(s1, a) ==
    IF s1.exc THEN s1
    ELSE IF ~s1.director[a].attr
         THEN [s1 EXCEPT !.ret = Raised("AttributeError"), !.exc = TRUE]
    ELSE Actor_wrap_up(s1, a)

\* Actor.wrap_up and ActorHandler.wrap_up
wrap_up(st, a) ==
    IF a \in Handlers THEN wrap_up_director(wrap_up_actors(st, actors(a)), a)
    ELSE Actor_wrap_up(st, a)

\* the loop of ActorHandler.wrap_up over the sub-actors; an exception ends it
wrap_up_actors(st, kids) ==
    IF kids = <<>> \/ st.exc THEN st
    ELSE wrap_up_actors(wrap_up(st, kids[1]), Tail(kids))

\* ActorHandler.clean_up after the loop: AbstractDirector.clean_up drops the
\* owner; Actor.clean_up does nothing
clean_up_director(s1, a) ==
    IF s1.exc THEN s1
    ELSE IF ~s1.director[a].attr
         THEN [s1 EXCEPT !.ret = Raised("AttributeError"), !.exc = TRUE]
    ELSE Log([s1 EXCEPT !.director[a].owner = "none", !.ret = None], a, "clean_up")

\* Actor.clean_up and ActorHandler.clean_up
clean_up(st, a) ==
    IF a \in Handlers THEN clean_up_director(clean_up_actors(st, actors(a)), a)
    ELSE IF st.exc THEN st ELSE Log([st EXCEPT !.ret = None], a, "clean_up")

\* the loop of ActorHandler.clean_up over the sub-actors
clean_up_actors(st, kids) ==
    IF kids = <<>> \/ st.exc THEN st
    ELSE clean_up_actors(clean_up(st, kids[1]), Tail(kids))

RECURSIVE update_variables(_, _, _)
RECURSIVE update_list(_, _, _)

\* the actors OptionManager.update_variables passes the store on to: the
\* elements of the default list of "actors" and of the stored list
held_actors(a) ==
    IF a \in Handlers
    THEN def_actors[a].l \o
         (IF "actors" \in DOMAIN opt_values[a] THEN opt_values[a]["actors"].l ELSE <<>>)
    ELSE <<>>

\* the end of Actor.update_variables: self.variables.add_listener(self)
listen(u, a) == [u EXCEPT !.vlisteners[u.vstore[a]] = @ \cup {a}]

\* Actor.update_variables on u = [vstore, vlisteners]: the actor leaves the
\* listeners of its store, OptionManager.update_variables replaces the store
\* and hands it to the actors held by the options, and the actor joins the
\* listeners of the new store
update_variables(u, a, store) ==
    listen(update_list([u EXCEPT !.vlisteners[u.vstore[a]] = @ \ {a},
                                 !.vstore[a] = store],
                       held_actors(a), store), a)

update_list(u, kids, store) ==
    IF kids = <<>> THEN u
    ELSE update_list(update_variables(u, kids[1], store), Tail(kids), store)

\* _backup_state: the state dictionary
backup_state(st, a) ==
    IF a \in Consumers /\ ~IsNone(st.input[a])
    THEN [k \in {"input"} |-> st.input[a]]
    ELSE EmptyMap

\* a _restore_state that forgets the state dictionary
restore_state_dropping(st, a, state) == Log(st, a, "restore_state")

\* _restore_state
restore_state(st, a, state) ==
    Log(IF a \in Consumers /\ "input" \in DOMAIN state
        THEN [st EXCEPT !.input[a] = state["input"]]
        ELSE st,
        a, "restore_state")

\* _pre_execute returns None
returns_None(st) == [st EXCEPT !.ret = None]

\* a reconfiguration that does not reset
Actor_pre_execute_no_reset(st, a, F) ==
    IF st.variables_changed[a]
    THEN returns_None(
             restore_state(setup(Log(st, a, "backup_state"), a, F),
                           a, backup_state(st, a)))
    ELSE returns_None(st)

\* Actor._pre_execute: the reconfiguration when a watched variable changed
Actor_pre_execute(st, a, F) ==
    IF st.variables_changed[a]
    THEN returns_None(
             restore_state(setup(Actor_reset(Log(st, a, "backup_state"), a), a, F),
                           a, backup_state(st, a)))
    ELSE returns_None(st)

Failure == PyStr(<<"failed">>)

\* what a hook of a subclass does: "ok", "fail" (an error message) or "raise"
Hook(st, h) ==
    IF h = "raise" THEN [st EXCEPT !.ret = Raised("Exception"), !.exc = TRUE]
    ELSE IF h = "fail" THEN [st EXCEPT !.ret = Failure]
    ELSE [st EXCEPT !.ret = None]

\* what the subclasses add to _pre_execute: the transformer clears its
\* output list; then the subclass's own checks
pre_execute_own(s1, a, p) ==
    IF a \in Transformers
    THEN IF IsNone(s1.output[a])
         THEN [s1 EXCEPT !.ret = Raised("AttributeError"), !.exc = TRUE]
         ELSE Hook([s1 EXCEPT !.output[a] = PyList(<<>>)], p)
    ELSE Hook(s1, p)

\* _pre_execute of the classes of the tree: Actor._pre_execute first
pre_execute(st, a, p, F) ==
    pre_execute_own(Actor_pre_execute(Log(st, a, "pre_execute"), a, F), a, p)

\* AbstractDirector.execute; _do_execute is the strategy of the subclass
Director_execute(st, h, d) ==
    IF Len(actors(h)) = 0
    THEN [st EXCEPT !.director[h].stopped = FALSE,
                    !.ret = PyStr(<<"No actors to execute!">>)]
    ELSE Hook([st EXCEPT !.director[h].stopped = FALSE], d)

\* ActorHandler._do_execute, or the subclass's for a leaf, which reads the
\* input
do_execute_own(s1, a, d) ==
    IF a \in Handlers
    THEN IF ~s1.director[a].attr
         THEN [s1 EXCEPT !.ret = Raised("AttributeError"), !.exc = TRUE]
         ELSE Director_execute(s1, a, d)
    ELSE Hook([s1 EXCEPT !.seen = IF a \in Consumers THEN s1.input[a] ELSE None], d)

\* _do_execute
do_execute(st, a, d) == do_execute_own(Log(st, a, "do_execute"), a, d)

\* AbstractSimpleSink._post_execute, AbstractSimpleTransformer._post_execute
post_execute_own(s1, a) ==
    IF a \in Sinks THEN [s1 EXCEPT !.input[a] = None]
    ELSE IF a \in Transformers
         THEN [s1 EXCEPT !.input[a] = None,
                         !.output[a] = IF s1.stopped[a] THEN PyList(<<>>) ELSE @]
    ELSE s1

\* the part of _post_execute a subclass adds may raise
post_execute_hook(s2, q) ==
    IF q = "raise" THEN [s2 EXCEPT !.ret = Raised("Exception"), !.exc = TRUE]
    ELSE s2

\* _post_execute of the classes of the tree; it returns nothing, so the
\* result of _do_execute stays unless the subclass's part raises
post_execute(st, a, q) ==
    post_execute_hook(post_execute_own(Log(st, a, "post_execute"), a), q)

Traceback == PyStr(<<"Traceback">>)

\* an execute that lets the exception out
uncaught(st) == st

\* the except clause of Actor.execute
caught(st) == IF IsRaised(st.ret) THEN [st EXCEPT !.ret = Traceback] ELSE st

\* how the steps ended, for the record of the call
ended_pre(r) == [r EXCEPT !.outcome.pre = Kind(r.ret)]

ended_do(r) == [r EXCEPT !.outcome.do = Kind(r.ret)]

ended_post(r) == [r EXCEPT !.outcome.post = IF IsRaised(r.ret) THEN "raise" ELSE "ok"]

\* Actor.execute after _do_execute: _post_execute runs whatever the result
execute_post(s2, a, q) ==
    IF IsRaised(s2.ret) THEN caught(s2)
    ELSE caught(ended_post(post_execute(s2, a, q)))

\* Actor.execute after _pre_execute: _do_execute runs if the result is None
execute_do(s1, a, d, q) ==
    IF ~IsNone(s1.ret) THEN caught(s1)
    ELSE execute_post(ended_do(do_execute(s1, a, d)), a, q)

\* Actor.execute
execute(st, a, p, d, q, F) ==
    execute_do(ended_pre(pre_execute(st, a, p, F)), a, d, q)

RECURSIVE get_log_prefix(_, _)

\* the prefix is stored and returned
cache_log_prefix(sp, a, full) == [sp EXCEPT !.log_prefix[a] = full, !.ret = full]

\* Actor._get_log_prefix: computes and caches the full name
get_log_prefix(st, a) ==
    IF ~IsNone(st.log_prefix[a]) THEN [st EXCEPT !.ret = st.log_prefix[a]]
    ELSE IF st.parent[a] # "none"
         THEN cache_log_prefix(get_log_prefix(st, st.parent[a]), a,
                  PyStr(get_log_prefix(st, st.parent[a]).ret.s \o <<".">> \o Actor_name(a)))
         ELSE cache_log_prefix(st, a, PyStr(Actor_name(a)))

\* Actor.variables_changed for every listener of the store (_notify_listeners)
notify(changed, store, var) ==
    [a \in Actors |->
        IF /\ a \in vlisteners[store]
           /\ \E k \in 1..Len(variables_detected[a]) : PyStr(variables_detected[a][k]) = var
        THEN TRUE
        ELSE changed[a]]

----------------------------------------------------------------------------
(* callable.py, actor_utils.py: a flow with reference pools.                *)
(*                                                                         *)
(*   F: [PA: [a1, a2], I: [PB: [b1], R, PC: [c1]], Q: []]                   *)
(*                                                                         *)
(* F, I and Q are ActorHandlers, PA, PB and PC ActorReferenceHandlers, R   *)
(* is an AbstractCallableActor, a1, a2, b1 and c1 are plain actors.  The   *)
(* flow is built; what varies is the names, the capability flags and the   *)
(* options of R.  "none" stands for None where an actor is expected.       *)

FLOW == {"F", "PA", "I", "Q", "PB", "R", "PC", "a1", "a2", "b1", "c1"}

\* isinstance(a, ActorReferenceHandler)
POOLS == {"PA", "PB", "PC"}

\* isinstance(a, ActorHandler)
FLOW_HANDLERS == {"F", "I", "Q"} \cup POOLS

\* Actor._parent of the built flow
FLOW_PARENT ==
    [n \in FLOW |->
        CASE n = "F" -> "none"
          [] n \in {"PA", "I", "Q"} -> "F"
          [] n \in {"PB", "R", "PC"} -> "I"
          [] n \in {"a1", "a2"} -> "PA"
          [] n = "b1" -> "PB"
          [] n = "c1" -> "PC"]

\* ActorHandler.actors of the built flow
FLOW_ACTORS ==
    [h \in FLOW_HANDLERS |->
        CASE h = "F" -> <<"PA", "I", "Q">>
          [] h = "I" -> <<"PB", "R", "PC">>
          [] h = "PA" -> <<"a1", "a2">>
          [] h = "PB" -> <<"b1">>
          [] h = "PC" -> <<"c1">>
          [] h = "Q" -> <<>>]

\* Actor.root
RECURSIVE root(_)
root(a) == IF FLOW_PARENT[a] # "none" THEN root(FLOW_PARENT[a]) ELSE a

\* ActorHandler.index(actor) for a name: the position (from 0) of the first
\* sub-actor with that name, -1 if there is none
RECURSIVE index_from(_, _, _, _)
index_from(names, kids, name, i) ==
    IF i >= Len(kids) THEN -1
    ELSE IF names[kids[i + 1]] = name THEN i
    ELSE index_from(names, kids, name, i + 1)

index(names, h, name) == index_from(names, FLOW_ACTORS[h], name, 0)

\* find_actor_handlers, lines 30-41: the ActorHandlers at positions i, i-1,
\* ..., 0 of the handler, kept if standalones need not be allowed or are
RECURSIVE same_level(_, _, _, _)
same_level(info, handler, i, must_allow_standalones) ==
    IF i < 0 THEN <<>>
    ELSE (IF /\ FLOW_ACTORS[handler][i + 1] \in FLOW_HANDLERS
             /\ (must_allow_standalones => info[FLOW_ACTORS[handler][i + 1]])
          THEN <<FLOW_ACTORS[handler][i + 1]>>
          ELSE <<>>)
         \o same_level(info, handler, i - 1, must_allow_standalones)

\* find_actor_handlers, lines 26-46: what one turn of the loop appends
level(names, info, child, handler, must_allow_standalones, include_same_level) ==
    IF handler \notin FLOW_HANDLERS THEN <<>>
    ELSE (IF include_same_level
          THEN same_level(info, handler, index(names, handler, names[child]) - 1,
                          must_allow_standalones)
          ELSE <<>>)
         \o (IF must_allow_standalones => info[handler] THEN <<handler>> ELSE <<>>)

\* find_actor_handlers, the loop from (child, parent) on
RECURSIVE climb(_, _, _, _, _, _, _)
climb(names, info, rt, child, par, must_allow_standalones, include_same_level) ==
    IF par = "none" THEN <<>>
    ELSE level(names, info, child, par, must_allow_standalones, include_same_level)
         \o (IF par = rt THEN <<>>
             ELSE climb(names, info, rt, par, FLOW_PARENT[par],
                        must_allow_standalones, include_same_level))

find_actor_handlers(names, info, actor, must_allow_standalones, include_same_level) ==
    climb(names, info, root(actor), actor, FLOW_PARENT[actor],
          must_allow_standalones, include_same_level)

\* find_callable_actor on an ActorReferenceHandler
find_in_pool(names, pool, name) ==
    IF index(names, pool, name) > -1
    THEN FLOW_ACTORS[pool][index(names, pool, name) + 1]
    ELSE "none"

\* find_callable_actor, lines 33-37: the loop over the sub-actors stops at the
\* first pool that holds the name
RECURSIVE find_in_pools(_, _, _, _)
find_in_pools(names, kids, name, result) ==
    IF kids = <<>> THEN result
    ELSE IF kids[1] \in POOLS
         THEN IF find_in_pool(names, kids[1], name) # "none"
              THEN find_in_pool(names, kids[1], name)
              ELSE find_in_pools(names, Tail(kids), name, "none")
         ELSE find_in_pools(names, Tail(kids), name, result)

\* find_callable_actor, lines 32-37: len(actor) times the same loop
RECURSIVE repeat_find(_, _, _, _, _)
repeat_find(names, actor, name, result, times) ==
    IF times = 0 THEN result
    ELSE repeat_find(names, actor, name,
                     find_in_pools(names, FLOW_ACTORS[actor], name, result), times - 1)

find_callable_actor(names, actor, name) ==
    IF actor \in POOLS THEN find_in_pool(names, actor, name)
    ELSE IF actor \in FLOW_HANDLERS
         THEN repeat_find(names, actor, name, "none", Len(FLOW_ACTORS[actor]))
    ELSE "none"

\* find_callable_actor_recursive, lines 58-61
RECURSIVE first_found(_, _, _)
first_found(names, handlers, name) ==
    IF handlers = <<>> THEN "none"
    ELSE IF find_callable_actor(names, handlers[1], name) # "none"
         THEN find_callable_actor(names, handlers[1], name)
         ELSE first_found(names, Tail(handlers), name)

\* a search that starts at the root
RECURSIVE last_found(_, _, _)
last_found(names, handlers, name) ==
    IF handlers = <<>> THEN "none"
    ELSE IF find_callable_actor(names, handlers[Len(handlers)], name) # "none"
         THEN find_callable_actor(names, handlers[Len(handlers)], name)
         ELSE last_found(names, SubSeq(handlers, 1, Len(handlers) - 1), name)

find_callable_actor_farthest_first(names, info, actor, name) ==
    last_found(names, find_actor_handlers(names, info, actor, TRUE, FALSE), name)

find_callable_actor_recursive(names, info, actor, name) ==
    first_found(names, find_actor_handlers(names, info, actor, TRUE, FALSE), name)

----------------------------------------------------------------------------
(* callable.py: AbstractCallableActor.  The fields of R are one record      *)
(* [configured, callable_actor, variables_changed, variables_detected,     *)
(* listening]; the operations return the fields, what was returned (ret)   *)
(* and the callable actor that was executed (ran).                         *)

UNKNOWN == <<"u", "n", "k", "n", "o", "w", "n">>

\* AbstractCallableActor._define_options, after Actor._define_options
CALLABLE_OPTIONS ==
    ACTOR_OPTIONS \o
    << Option("callable_name", "CallableActorReference", PyStr(UNKNOWN), None, None, None),
       Option("optional", "bool", PyBool(FALSE), None, None, None) >>

\* AbstractCallableActor._initialize
NewRef ==
    [configured |-> FALSE, callable_actor |-> "none", variables_changed |-> FALSE,
     variables_detected |-> <<>>, listening |-> FALSE]

\* self.get(name) of R
ref_get(om, data, name) == OptionManager_get(CALLABLE_OPTIONS, om, data, name)

\* AbstractCallableActor.reset, after Actor.reset
callable_reset(ref) ==
    [ref EXCEPT !.variables_changed = FALSE, !.variables_detected = <<>>,
                !.configured = FALSE, !.callable_actor = "none"]

\* AbstractCallableActor._backup_state
callable_backup_state(ref) ==
    [has_actor |-> ref.callable_actor # "none",
     callable_actor |-> ref.callable_actor,
     configured |-> ref.configured]

\* AbstractCallableActor._restore_state
callable_restore_state(ref, state) ==
    [ref EXCEPT !.callable_actor = IF state.has_actor THEN state.callable_actor ELSE @,
                !.configured = state.configured]

NotFound == PyStr(<<"Could not find/initialize callable actor">>)

\* _setup_callable_actor, lines 189-204, once the search answered; the
\* actors of the pools bind no variables, so nothing is added to
\* _variables_detected
after_find(ref, om, data, found) ==
    IF found = "none"
    THEN [ref |-> [ref EXCEPT !.configured = TRUE, !.callable_actor = "none"],
          ret |-> IF ~ref_get(om, data, "optional").b THEN NotFound ELSE None]
    ELSE [ref |-> [ref EXCEPT !.configured = TRUE, !.callable_actor = found,
                              !.listening = @ \/ Len(ref.variables_detected) > 0],
          ret |-> None]

\* AbstractCallableActor._setup_callable_actor
setup_callable_actor(names, info, ref, om, data) ==
    after_find(ref, om, data,
               find_callable_actor_recursive(names, info, "R",
                                             ref_get(om, data, "callable_name").s))

\* Actor.setup for R
ref_setup(ref, om) ==
    [ref EXCEPT !.variables_detected = detect_vars(CALLABLE_OPTIONS, om, {"Actor"}),
                !.listening = TRUE]

\* AbstractCallableActor.setup
callable_setup(names, info, ref, om, data) ==
    IF ~OM_has_var(CALLABLE_OPTIONS, om, "callable_name")
    THEN setup_callable_actor(names, info, ref_setup(ref, om), om, data)
    ELSE [ref |-> ref_setup(ref, om), ret |-> None]

\* Actor._pre_execute for R; what the setup() inside returns is dropped
callable_pre_execute(names, info, ref, om, data) ==
    IF ref.variables_changed
    THEN callable_restore_state(callable_setup(names, info, callable_reset(ref), om, data).ref,
                                callable_backup_state(ref))
    ELSE ref

\* _do_execute, lines 242-247; no actor of the flow is stopped, and
\* _do_execute_callable_actor of the subclass succeeds
run_callable(r) ==
    IF IsNone(r.ret) /\ r.ref.callable_actor # "none"
    THEN [ref |-> r.ref, ret |-> None, ran |-> r.ref.callable_actor]
    ELSE [ref |-> r.ref, ret |-> r.ret, ran |-> "none"]

\* AbstractCallableActor._do_execute
callable_do_execute(names, info, ref, om, data) ==
    run_callable(IF ~ref.configured
                 THEN setup_callable_actor(names, info, ref, om, data)
                 ELSE [ref |-> ref, ret |-> None])

\* Actor.execute for R
callable_execute(names, info, ref, om, data) ==
    callable_do_execute(names, info, callable_pre_execute(names, info, ref, om, data),
                        om, data)

InSeq(x, seq) == \E k \in 1..Len(seq) : seq[k] = x

\* Actor.variables_changed(event)
ref_notified(ref, var) ==
    IF ref.listening /\ InSeq(var, ref.variables_detected)
    THEN [ref EXCEPT !.variables_changed = TRUE]
    ELSE ref

\* the flow as built: every handler and R is named by its class, the actors
\* of the pools are named X and Y; every handler allows standalones
FLOW_NAMES ==
    [n \in FLOW |->
        CASE n \in {"a1", "b1"} -> <<"X">>
          [] n \in {"a2", "c1"} -> <<"Y">>
          [] OTHER -> <<n>>]

CallIdle == [op |-> "init", actor |-> "none", name |-> <<>>, must |-> FALSE,
             incl |-> FALSE, handlers |-> <<>>, found |-> "none", ret |-> None,
             ran |-> "none", changed |-> FALSE, resolving |-> FALSE]

CallInit ==
    /\ c_name = FLOW_NAMES
    /\ c_info = [h \in FLOW_HANDLERS |-> TRUE]
    /\ c_om = [values |-> EmptyMap,
               var |-> [n \in OptionNames(CALLABLE_OPTIONS) |-> None]]
    /\ c_data = EmptyMap
    /\ c_ref = NewRef
    /\ c_last = CallIdle

----------------------------------------------------------------------------
(* vars.py: Variables with listeners.  A call answers the entries it       *)
(* leaves (data), what it returned or raised (ret) and the event it sent   *)
(* to the listeners (event, NoEvent if it sent none); self is returned as  *)
(* None.                                                                   *)

\* VariableChangeEvent(self, event_type, var)
VariableChangeEvent(event_type, var) == [event_type |-> event_type, var |-> var]

NoEvent == [event_type |-> "", var |-> None]

\* a set that reports every key as new
Variables_set_always_added(data, key, value) ==
    IF ~is_valid_name(key)
    THEN [data |-> data, ret |-> Raised("Invalid variable name"), event |-> NoEvent]
    ELSE [data |-> data_set(data, key, value), ret |-> None,
          event |-> VariableChangeEvent("added", PyStr(key))]

\* Variables.set
Variables_set(data, key, value) ==
    IF ~is_valid_name(key)
    THEN [data |-> data, ret |-> Raised("Invalid variable name"), event |-> NoEvent]
    ELSE IF key \notin DOMAIN data
         THEN [data |-> data_set(data, key, value), ret |-> None,
               event |-> VariableChangeEvent("added", PyStr(key))]
         ELSE [data |-> data_set(data, key, value), ret |-> None,
               event |-> VariableChangeEvent("updated", PyStr(key))]

\* a remove that reports a deletion whether or not the key was there
Variables_remove_always_deleted(data, key) ==
    IF ~is_valid_name(key)
    THEN [data |-> data, ret |-> Raised("Invalid variable name"), event |-> NoEvent]
    ELSE [data |-> data_remove(data, key), ret |-> None,
          event |-> VariableChangeEvent("deleted", PyStr(key))]

\* Variables.remove
Variables_remove(data, key) ==
    IF ~is_valid_name(key)
    THEN [data |-> data, ret |-> Raised("Invalid variable name"), event |-> NoEvent]
    ELSE IF key \in DOMAIN data
         THEN [data |-> data_remove(data, key), ret |-> None,
               event |-> VariableChangeEvent("deleted", PyStr(key))]
         ELSE [data |-> data, ret |-> None, event |-> NoEvent]

\* Variables.clear
Variables_clear(data) ==
    [data |-> EmptyMap, ret |-> None, event |-> VariableChangeEvent("cleared", None)]

\* Variables._notify_listeners: variables_changed(event) of every listener;
\* a listener of the model appends the event to what it received
notify_listeners(events, listeners, event) ==
    [l \in DOMAIN events |->
        IF l \in listeners /\ event # NoEvent THEN Append(events[l], event)
        ELSE events[l]]

\* the objects the host registers as listeners
LISTENERS == {"L1", "L2"}

StoreIdle == [op |-> "init", key |-> <<>>, ret |-> None]

\* Variables.__init__
StoreInit ==
    /\ s_data = EmptyMap
    /\ s_listeners = {}
    /\ s_events = [l \in LISTENERS |-> <<>>]
    /\ s_last = StoreIdle

----------------------------------------------------------------------------
(* storage.py: Storage, next to Variables of vars.py.  Both are driven     *)
(* with the same calls.  A listener is an object of the host; what it      *)
(* received during the last call is kept as a sequence of                  *)
(* [callback, event].                                                      *)

\* StorageChangeEvent(self, event_type, key)
StorageChangeEvent(event_type, key) == [event_type |-> event_type, key |-> key]

\* the listener objects of the host: B derives from VariableChangeListener
\* and StorageChangeListener and defines both callbacks; G derives from
\* StorageChangeListener alone and defines storage_changed
LISTENER_OBJECTS == {"B", "G"}

\* hasattr(l, callback)
hasattr(l, callback) ==
    \/ l = "B" /\ callback \in {"variables_changed", "storage_changed"}
    \/ l = "G" /\ callback = "storage_changed"

NothingSent == [l \in LISTENER_OBJECTS |-> <<>>]

\* the orders in which a for loop can iterate the set of listeners
Orders(listeners) ==
    {o \in UNION {[1..n -> listeners] : n \in {Cardinality(listeners)}} :
        \A i, j \in DOMAIN o : i # j => o[i] # o[j]}

\* for l in self._listeners: l.<callback>(event), the loop at position i of
\* the iteration order; a listener without the attribute ends the loop with
\* an AttributeError
RECURSIVE call_listeners(_, _, _, _, _)
call_listeners(order, i, callback, event, sent) ==
    IF i > Len(order) THEN [sent |-> sent, ret |-> None]
    ELSE IF ~hasattr(order[i], callback)
         THEN [sent |-> sent, ret |-> Raised("AttributeError")]
         ELSE call_listeners(order, i + 1, callback, event,
                  [sent EXCEPT ![order[i]] =
                      Append(@, [callback |-> callback, event |-> event])])

\* Variables._notify_listeners
Variables_notify_listeners(order, event, sent) ==
    call_listeners(order, 1, "variables_changed", event, sent)

\* Storage._notify_listeners
Storage_notify_listeners(order, event, sent) ==
    call_listeners(order, 1, "variables_changed", event, sent)

\* Variables.remove_listener
Variables_remove_listener(listeners, l) ==
    IF l \in listeners THEN [listeners |-> listeners \ {l}, ret |-> None]
    ELSE [listeners |-> listeners, ret |-> None]

\* Storage.remove_listener: set.remove raises KeyError for a missing element
Storage_remove_listener(listeners, l) ==
    IF l \in listeners THEN [listeners |-> listeners \ {l}, ret |-> None]
    ELSE [listeners |-> listeners, ret |-> Raised("KeyError")]

\* Variables.set, with the delivery to the listeners
Variables_set_notify(data, order, key, value, sent) ==
    IF ~is_valid_name(key)
    THEN [data |-> data, sent |-> sent, ret |-> Raised("Invalid variable name")]
    ELSE [data |-> data_set(data, key, value)] @@
         Variables_notify_listeners(order,
             VariableChangeEvent(IF key \notin DOMAIN data THEN "added" ELSE "updated",
                                 PyStr(key)), sent)

\* Storage.set
Storage_set(data, order, key, value, sent) ==
    IF ~is_valid_name(key)
    THEN [data |-> data, sent |-> sent, ret |-> Raised("Invalid storage name")]
    ELSE [data |-> data_set(data, key, value)] @@
         Storage_notify_listeners(order,
             StorageChangeEvent(IF key \notin DOMAIN data THEN "added" ELSE "updated",
                                PyStr(key)), sent)

\* Variables.remove, with the delivery to the listeners
Variables_remove_notify(data, order, key, sent) ==
    IF ~is_valid_name(key)
    THEN [data |-> data, sent |-> sent, ret |-> Raised("Invalid variable name")]
    ELSE IF key \in DOMAIN data
         THEN [data |-> data_remove(data, key)] @@
              Variables_notify_listeners(order,
                  VariableChangeEvent("deleted", PyStr(key)), sent)
         ELSE [data |-> data, sent |-> sent, ret |-> None]

\* Storage.remove
Storage_remove(data, order, key, sent) ==
    IF ~is_valid_name(key)
    THEN [data |-> data, sent |-> sent, ret |-> Raised("Invalid storage name")]
    ELSE IF key \in DOMAIN data
         THEN [data |-> data_remove(data, key)] @@
              Storage_notify_listeners(order,
                  StorageChangeEvent("deleted", PyStr(key)), sent)
         ELSE [data |-> data, sent |-> sent, ret |-> None]

\* Variables.clear, with the delivery to the listeners
Variables_clear_notify(order, sent) ==
    [data |-> EmptyMap] @@
    Variables_notify_listeners(order, VariableChangeEvent("cleared", None), sent)

\* Storage.clear
Storage_clear(order, sent) ==
    [data |-> EmptyMap] @@
    Storage_notify_listeners(order, StorageChangeEvent("cleared", None), sent)

\* Storage.has
Storage_has(data, key) ==
    IF ~is_valid_name(key) THEN Raised("Invalid storage name")
    ELSE PyBool(key \in DOMAIN data)

\* Storage.get
Storage_get(data, key) ==
    IF ~is_valid_name(key) THEN Raised("Invalid storage name")
    ELSE IF key \in DOMAIN data THEN data[key]
    ELSE None

\* Variables.merge: for key in variables.keys(): self.set(key, ...), the
\* loop at position i of the entries of the other store; a set that raises
\* ends the loop
RECURSIVE Variables_merge(_, _, _, _, _)
Variables_merge(data, order, entries, i, sent) ==
    IF i > Len(entries) THEN [data |-> data, sent |-> sent, ret |-> None]
    ELSE IF IsRaised(Variables_set_notify(data, order, entries[i][1], entries[i][2], sent).ret)
         THEN Variables_set_notify(data, order, entries[i][1], entries[i][2], sent)
         ELSE Variables_merge(
                  Variables_set_notify(data, order, entries[i][1], entries[i][2], sent).data,
                  order, entries, i + 1,
                  Variables_set_notify(data, order, entries[i][1], entries[i][2], sent).sent)

\* Storage.merge
RECURSIVE Storage_merge(_, _, _, _, _)
Storage_merge(data, order, entries, i, sent) ==
    IF i > Len(entries) THEN [data |-> data, sent |-> sent, ret |-> None]
    ELSE IF IsRaised(Storage_set(data, order, entries[i][1], entries[i][2], sent).ret)
         THEN Storage_set(data, order, entries[i][1], entries[i][2], sent)
         ELSE Storage_merge(
                  Storage_set(data, order, entries[i][1], entries[i][2], sent).data,
                  order, entries, i + 1,
                  Storage_set(data, order, entries[i][1], entries[i][2], sent).sent)

TwinIdle == [op |-> "init", arg |-> <<>>]

\* Variables.__init__ and Storage.__init__
TwinInit ==
    /\ tv_data = EmptyMap
    /\ tv_listeners = {}
    /\ tv_sent = NothingSent
    /\ tv_ret = None
    /\ ts_data = EmptyMap
    /\ ts_listeners = {}
    /\ ts_sent = NothingSent
    /\ ts_ret = None
    /\ t_call = TwinIdle

----------------------------------------------------------------------------
(* config.py: OptionManager.detect_vars over option handlers that hold     *)
(* other option handlers.  M is an option handler of the host with an      *)
(* option holding one condition (default D), an option holding a list of   *)
(* conditions and an option holding a list of actors; N is a second        *)
(* condition and A an actor.                                               *)

HANDLER_OBJECTS == {"M", "D", "N", "A"}

\* a value that is an option handler
Obj(o) == [obj |-> o]

\* _define_options of the classes of the objects
DETECT_OPTIONS(o) ==
    CASE o = "M" ->
            << Option("debug", "bool", PyBool(FALSE), None, None, None),
               Option("condition", "AbstractBooleanCondition", Obj("D"), None, None, None),
               Option("conditions", "list", PyList(<<>>),
                      [cls |-> "AbstractBooleanCondition"], None, None),
               Option("actors", "list", PyList(<<>>), [cls |-> "Actor"], None, None) >>
      [] o = "A" -> ACTOR_OPTIONS
      [] OTHER -> << Option("debug", "bool", PyBool(FALSE), None, None, None) >>

\* (option.value_type in skip) or (option.base_type in skip), skip a list of
\* classes or None
skipped(option, skip) ==
    /\ ~IsNone(skip)
    /\ \/ InSeq(option.value_type, skip.l)
       \/ ~IsNone(option.base_type) /\ InSeq(option.base_type.cls, skip.l)

\* if option.var is not None: result.append(option.var)
own_var(var, o, option) ==
    IF IsNone(var[o][option.name]) THEN <<>> ELSE <<var[o][option.name].s>>

RECURSIVE OptionManager_detect_vars(_, _, _, _)
RECURSIVE detect_options(_, _, _, _, _)
RECURSIVE detect_list(_, _, _, _)
RECURSIVE detect_nested(_, _, _, _, _)

\* "recurse": only an option with an entry in _values is looked into
detect_nested(var, values, o, option, skip) ==
    IF option.name \notin DOMAIN values[o] THEN <<>>
    ELSE (IF issubclass(option.value_type, "AbstractOptionHandler")
          THEN OptionManager_detect_vars(var, values, values[o][option.name].obj, skip)
          ELSE <<>>)
         \o
         (IF ~IsNone(option.base_type)
             /\ issubclass(option.base_type.cls, "AbstractOptionHandler")
          THEN detect_list(var, values, values[o][option.name].l, skip)
          ELSE <<>>)

\* for l in self._values[k]: result.extend(l.option_manager.detect_vars(...))
detect_list(var, values, list, skip) ==
    IF list = <<>> THEN <<>>
    ELSE OptionManager_detect_vars(var, values, list[1], skip)
         \o detect_list(var, values, Tail(list), skip)

\* the loop of detect_vars over the options, from the i-th on
detect_options(var, values, o, i, skip) ==
    IF i > Len(DETECT_OPTIONS(o)) THEN <<>>
    ELSE (IF skipped(DETECT_OPTIONS(o)[i], skip) THEN <<>>
          ELSE own_var(var, o, DETECT_OPTIONS(o)[i])
               \o detect_nested(var, values, o, DETECT_OPTIONS(o)[i], skip))
         \o detect_options(var, values, o, i + 1, skip)

\* OptionManager.detect_vars(skip) of the manager of o
OptionManager_detect_vars(var, values, o, skip) == detect_options(var, values, o, 1, skip)

DetectIdle == [op |-> "init", skip |-> None, ret |-> None]

\* the objects as built: nothing bound, no override
DetectInit ==
    /\ dt_var = [o \in HANDLER_OBJECTS |->
                    [n \in OptionNames(DETECT_OPTIONS(o)) |-> None]]
    /\ dt_values = [o \in HANDLER_OBJECTS |-> EmptyMap]
    /\ dt_last = DetectIdle

----------------------------------------------------------------------------
(* source.py, transformer.py, sink.py, director.py: a handler whose        *)
(* sub-actors are a source, a transformer that doubles its input and a     *)
(* sink that collects its input, executed by a sequential director.        *)

MaxItems == 3

ITEMS == {1, 2, 3}

\* what the host lets the source emit
EMITS == UNION {[1..n -> ITEMS] : n \in 0..MaxItems}

\* AbstractSimpleSource.has_output, AbstractSimpleTransformer.has_output
has_output(out) == Len(out) > 0

\* an output() that hands out the newest item
output_newest(out) ==
    IF Len(out) > 0
    THEN [result |-> PyInt(out[Len(out)]), output |-> SubSeq(out, 1, Len(out) - 1)]
    ELSE [result |-> None, output |-> out]

\* AbstractSimpleSource.output, AbstractSimpleTransformer.output: the first
\* item, which is deleted from _output
Producer_output(out) ==
    IF Len(out) > 0
    THEN [result |-> PyInt(out[1]), output |-> Tail(out)]
    ELSE [result |-> None, output |-> out]

SeqIdle == [S |-> <<>>, T |-> <<>>]

SeqInit ==
    /\ q_items = <<>>
    /\ q_out = SeqIdle
    /\ q_in = [T |-> None, K |-> None]
    /\ q_collected = <<>>
    /\ q_stopped = FALSE
    /\ q_pc = "new"
    /\ q_ret = None

\* AbstractDirector._check, for the three sub-actors
Director_check(children) ==
    IF Len(children) = 0 THEN PyStr(<<"No actors to execute!">>) ELSE None

\* _output of the transformer after its execute() on the input data:
\* _pre_execute clears the list, _do_execute appends the double
Transformer_execute(out, data) == <<>> \o <<2 * data.i>>

\* what the sink has collected after its execute() on the input data
Sink_execute(collected, data) == Append(collected, data.i)

----------------------------------------------------------------------------
(* serialization/vars.py: the registry of string readers and its cache.    *)
(* A cache entry is a reader, or False for a class no reader handled.      *)

\* what the module itself registers when it is imported
DEFAULT_READERS ==
    <<"StringReader", "BoolStringReader", "IntStringReader",
      "FloatStringReader", "ListStringReader">>

\* the cache entry that is False
Placeholder == [b |-> FALSE]

CachedReader(reader) == [reader |-> reader]

\* get_string_reader with the cache: what it returns ("" stands for None)
\* and the cache afterwards
get_string_reader_cached(readers, cache, cls) ==
    IF cls \in DOMAIN cache
    THEN [ret |-> IF IsBool(cache[cls]) THEN "" ELSE cache[cls].reader,
          cache |-> cache]
    ELSE [ret |-> find_string_reader(readers, cls),
          cache |-> data_set(cache, cls,
                             IF find_string_reader(readers, cls) = "" THEN Placeholder
                             ELSE CachedReader(find_string_reader(readers, cls)))]

ReaderIdle == [op |-> "init", arg |-> "", ret |-> "", missed |-> FALSE]

ReaderInit ==
    /\ r_readers = DEFAULT_READERS
    /\ r_cache = EmptyMap
    /\ r_last = ReaderIdle

----------------------------------------------------------------------------
(* vars.py: _do_expand and expand.  The loop of expand is one step per     *)
(* call of _do_expand, so that a call that never returns is a behaviour    *)
(* that never leaves the loop.                                             *)

\* s.find(sub, start): the first position (from 0) at or after start where
\* sub begins, -1 if there is none
RECURSIVE find(_, _, _)
find(s, sub, start) ==
    IF start + Len(sub) > Len(s) THEN -1
    ELSE IF SubSeq(s, start + 1, start + Len(sub)) = sub THEN start
    ELSE find(s, sub, start + 1)

\* sub in s
contains(s, sub) == find(s, sub, 0) # -1

\* s[from:to]
slice(s, from, to) == SubSeq(s, from + 1, to)

\* repr(value) in place of str(value)
repr(v) == IF IsInt(v) THEN py_str(v.i) ELSE <<"'">> \o v.s \o <<"'">>

\* str(value) of the values a store of the model holds
str(v) == IF IsInt(v) THEN py_str(v.i) ELSE v.s

\* _do_expand, lines 99-107: what replaces the reference tmp[start:end+1]
replacement(data, name) ==
    IF Variables_has(data, name) = PyBool(TRUE)
    THEN str(Variables_get(data, name))
    ELSE <<>>

\* _do_expand, from the loop on: tmp is what is left of s, result and
\* expanded are the local variables
RECURSIVE do_expand_loop(_, _, _, _)
do_expand_loop(tmp, data, result, expanded) ==
    IF contains(tmp, VAR_START) /\ contains(tmp, VAR_END)
    THEN IF find(tmp, VAR_END, find(tmp, VAR_START, 0)) = -1
         THEN [result |-> result \o tmp, expanded |-> expanded, exc |-> FALSE]
         ELSE IF IsRaised(Variables_has(data,
                     slice(tmp, find(tmp, VAR_START, 0) + Len(VAR_START),
                           find(tmp, VAR_END, find(tmp, VAR_START, 0)))))
              THEN [result |-> result, expanded |-> expanded, exc |-> TRUE]
              ELSE do_expand_loop(
                     slice(tmp, find(tmp, VAR_END, find(tmp, VAR_START, 0)) + 1, Len(tmp)),
                     data,
                     result \o slice(tmp, 0, find(tmp, VAR_START, 0))
                            \o replacement(data,
                                   slice(tmp, find(tmp, VAR_START, 0) + Len(VAR_START),
                                         find(tmp, VAR_END, find(tmp, VAR_START, 0)))),
                     TRUE)
    ELSE [result |-> result \o tmp, expanded |-> expanded, exc |-> FALSE]

\* _do_expand
do_expand(s, data) == do_expand_loop(s, data, <<>>, FALSE)

ExpandInit ==
    /\ e_data = EmptyMap
    /\ e_s = <<>>
    /\ e_result = <<>>
    /\ e_passes = 0
    /\ e_pc = "idle"

\* the variables of the other parts keep their initial values
RestInit == CallInit /\ StoreInit /\ ExpandInit /\ TwinInit /\ DetectInit /\ SeqInit /\ ReaderInit

----------------------------------------------------------------------------
(* The host's calls on the actor tree *)

KEY == <<"v">>

ACTOR_STORE_VALUES == {PyStr(<<"x">>), PyStr(<<"y">>)}

DATA == {PyInt(1), PyInt(2)}

HOOKS == {"ok", "fail", "raise"}

\* how the hooks of one execute() end: <<_pre_execute, _do_execute,
\* _post_execute>>; a hook that is not reached is listed as "ok" only
HOOK_RUNS ==
    {r \in HOOKS \X HOOKS \X {"ok", "raise"} :
        /\ r[1] # "ok" => (r[2] = "ok" /\ r[3] = "ok")
        /\ r[2] = "raise" => r[3] = "ok"}

\* the leaves whose setup() reports a failure in a call
FAILING == {{}, {"S"}, {"T"}}

\* the actors built with their name option bound to the variable v
BOUND == {"H", "S", "T"}

ActorInit ==
    /\ parent = [a \in Actors |->
                    CASE a = "H" -> "none" [] a = "S" -> "H"
                      [] a = "G" -> "H" [] a = "T" -> "G"]
    /\ stopped = [a \in Actors |-> FALSE]
    /\ log_prefix = [a \in Actors |-> None]
    /\ variables_changed = [a \in Actors |-> FALSE]
    /\ variables_detected = [a \in Actors |-> <<>>]
    /\ input = [a \in Consumers |-> None]
    /\ output = [a \in Transformers |-> PyList(<<>>)]
    /\ director = [h \in Handlers |-> NoDirector]
    /\ def_actors = [h \in Handlers |-> [l |-> <<>>, shared |-> FALSE]]
    /\ opt_var = [a \in Actors |->
                    [n \in OptionNames(OptionsOf(a)) |->
                        IF n = "name" /\ a \in BOUND THEN PyStr(KEY) ELSE None]]
    /\ opt_values = [a \in Actors |->
                        CASE a = "H" -> [n \in {"actors"} |-> PyList(<<"S", "G">>)]
                          [] a = "G" -> [n \in {"actors"} |-> PyList(<<"T">>)]
                          [] OTHER -> EmptyMap]
    /\ vstore = [a \in Actors |-> a]
    /\ vdata = [s \in Actors |-> EmptyMap]
    /\ vlisteners = [s \in Actors |-> {}]

LastInit(a) ==
    [op |-> "init", actor |-> a, trace |-> <<>>, ret |-> None, exc |-> FALSE,
     changed |-> FALSE, input |-> None, seen |-> NotRun, outcome |-> NoOutcome,
     before |-> <<>>, arg |-> <<>>]

\* the fields of the record become the state; last records the call, with
\* what it was given (arg): the list of a setter, the actors whose checks
\* fail during a setup
RecordArg(st, op, a, before, arg) ==
    /\ parent' = st.parent
    /\ stopped' = st.stopped
    /\ log_prefix' = st.log_prefix
    /\ variables_changed' = st.variables_changed
    /\ variables_detected' = st.variables_detected
    /\ input' = st.input
    /\ output' = st.output
    /\ director' = st.director
    /\ vlisteners' = st.vlisteners
    /\ last' = [op |-> op, actor |-> a, trace |-> st.trace, ret |-> st.ret,
                exc |-> st.exc, changed |-> variables_changed[a],
                input |-> IF a \in Consumers THEN input[a] ELSE None,
                seen |-> st.seen, outcome |-> st.outcome, before |-> before,
                arg |-> arg]

Record(st, op, a, before) == RecordArg(st, op, a, before, <<>>)

\* a call that leaves the options and the stores alone
Commit(st, op, a) ==
    /\ Record(st, op, a, <<>>)
    /\ UNCHANGED <<opt_var, opt_values, def_actors, vstore, vdata>>

\* host: a.setup()
Setup(a, F) == Commit(setup(Cur, a, F), "setup", a)

\* host: a.execute()
Execute(a, p, d, q, F) ==
    /\ RecordArg(execute(Cur, a, p, d, q, F), "execute", a, <<>>, F)
    /\ UNCHANGED <<opt_var, opt_values, def_actors, vstore, vdata>>

\* host: a.stop_execution()
StopExecution(a) == Commit(stop_execution(Cur, a), "stop_execution", a)

\* host or director: a.input(data)
Input(a, data) == Commit([Cur EXCEPT !.input[a] = data], "input", a)

\* host: a.full_name
FullName(a) == Commit(get_log_prefix(Cur, a), "full_name", a)

VarCommit(a, data, var, op) ==
    /\ vdata' = [vdata EXCEPT ![vstore[a]] = data]
    /\ variables_changed' = notify(variables_changed, vstore[a], var)
    /\ last' = [LastInit(a) EXCEPT !.op = op]
    /\ UNCHANGED <<parent, stopped, log_prefix, variables_detected, input, output,
                   director, opt_var, opt_values, def_actors, vstore, vlisteners>>

\* host: a.variables.set(key, value); the event is "added" or "updated"
VarSet(a, key, value) ==
    VarCommit(a, data_set(vdata[vstore[a]], key, value), PyStr(key), "var_set")

\* host: a.variables.remove(key); the event is sent only if the key was there
VarRemove(a, key) ==
    IF key \in DOMAIN vdata[vstore[a]]
    THEN VarCommit(a, data_remove(vdata[vstore[a]], key), PyStr(key), "var_remove")
    ELSE /\ last' = [LastInit(a) EXCEPT !.op = "var_remove"]
         /\ UNCHANGED <<parent, stopped, log_prefix, variables_changed,
                        variables_detected, input, output, director, opt_var,
                        opt_values, def_actors, vstore, vdata, vlisteners>>

\* host: a.variables.clear(); the event carries no variable
VarClear(a) == VarCommit(a, EmptyMap, None, "var_clear")

----------------------------------------------------------------------------
(* Spec: the host sets up, executes and stops any actor of the tree and    *)
(* changes the variables of the root.                                      *)

Init == OMInit /\ ActorInit /\ last = LastInit("H") /\ RestInit

Next ==
    \/ \E a \in Actors, F \in FAILING : Setup(a, F) /\ UNCHANGED <<omvars, restvars>>
    \/ \E a \in Actors, r \in HOOK_RUNS :
        \E F \in (IF variables_changed[a] THEN FAILING ELSE {{}}) :
            Execute(a, r[1], r[2], r[3], F) /\ UNCHANGED <<omvars, restvars>>
    \/ \E a \in Actors : StopExecution(a) /\ UNCHANGED <<omvars, restvars>>
    \/ \E value \in ACTOR_STORE_VALUES : VarSet("H", KEY, value) /\ UNCHANGED <<omvars, restvars>>
    \/ VarRemove("H", KEY) /\ UNCHANGED <<omvars, restvars>>
    \/ VarClear("H") /\ UNCHANGED <<omvars, restvars>>

Spec == Init /\ [][Next]_vars

----------------------------------------------------------------------------
(* SpecReconf: the host drives one leaf, chosen at the start: it sets it   *)
(* up, hands it input, executes it, reads its full name and changes the    *)
(* variables of its store.                                                 *)

InitReconf ==
    OMInit /\ ActorInit /\ RestInit /\ \E a \in Consumers : last = LastInit(a)

NextReconf ==
    \/ Setup(last.actor, {}) /\ UNCHANGED <<omvars, restvars>>
    \/ \E r \in HOOK_RUNS :
            Execute(last.actor, r[1], r[2], r[3], {}) /\ UNCHANGED <<omvars, restvars>>
    \/ \E data \in DATA : Input(last.actor, data) /\ UNCHANGED <<omvars, restvars>>
    \/ FullName(last.actor) /\ UNCHANGED <<omvars, restvars>>
    \/ \E value \in ACTOR_STORE_VALUES : VarSet(last.actor, KEY, value) /\ UNCHANGED <<omvars, restvars>>
    \/ VarRemove(last.actor, KEY) /\ UNCHANGED <<omvars, restvars>>
    \/ VarClear(last.actor) /\ UNCHANGED <<omvars, restvars>>

SpecReconf == InitReconf /\ [][NextReconf]_vars

----------------------------------------------------------------------------
(* SpecOM: the host works on one option manager and its variable store *)

----------------------------------------------------------------------------
(* control.py: assigning the sub-actors (the actors setter, manage,        *)
(* MutableActorHandler.append).  The option managers of all actors are     *)
(* threaded as one function: actor -> [values, var].                       *)

OMs == [a \in Actors |-> OMof(a)]

\* name in names, for a list of names
InList(name, names) == \E k \in 1..Len(names) : names[k] = name

\* a.name + " (" + str(i) + ")"
numbered(base, i) == base \o <<" ", "(">> \o py_str(i) \o <<")">>

\* the empty name stands for the class name
name_or_class(n, a) == IF Len(n.s) = 0 THEN ClassName(a) ELSE n.s

\* Actor.name, read from the threaded option managers
name_in(oms, a) ==
    name_or_class(OptionManager_get(OptionsOf(a), oms[a], vdata[vstore[a]], "name"), a)

RECURSIVE free_name(_, _, _)
\* the while loop of the setter: the first numbered name that is not taken
free_name(base, names, i) ==
    IF InList(numbered(base, i + 1), names) THEN free_name(base, names, i + 1)
    ELSE numbered(base, i + 1)

RECURSIVE unique_names(_, _, _)
RECURSIVE rename_next(_, _, _, _)
RECURSIVE renamed(_, _, _, _, _)

\* "ensure that names are unique": the loop over the new sub-actors
unique_names(oms, kids, names) ==
    IF kids = <<>> THEN [oms |-> oms, ret |-> None]
    ELSE rename_next(oms, kids, names, name_in(oms, kids[1]))

\* one sub-actor: a name that is taken is replaced through a.set("name", ...)
rename_next(oms, kids, names, name) ==
    IF InList(name, names)
    THEN renamed(OptionManager_set(OptionsOf(kids[1]), oms[kids[1]], "name",
                                   PyStr(free_name(name, names, 1))),
                 oms, kids, names, free_name(name, names, 1))
    ELSE unique_names(oms, Tail(kids), Append(names, name))

\* after a.set("name", name): names.append(name)
renamed(r, oms, kids, names, new) ==
    IF IsRaised(r.ret) THEN [oms |-> oms, ret |-> r.ret]
    ELSE unique_names([oms EXCEPT ![kids[1]] = r.om], Tail(kids), Append(names, new))

RECURSIVE set_parents(_, _, _)
\* the first loop of the setter: a.parent = self
set_parents(st, kids, h) ==
    IF kids = <<>> THEN st
    ELSE set_parents(set_parent(st, kids[1], h), Tail(kids), h)

\* the end of the setter: _check_actors, then the list is stored
store_actors(r, st, h, kids, check) ==
    IF IsRaised(r.ret)
    THEN [st |-> st, oms |-> r.oms, ret |-> r.ret, stored |-> FALSE, arg |-> kids]
    ELSE IF check = "reject"
         THEN [st |-> st, oms |-> r.oms, ret |-> Raised("Exception"), stored |-> FALSE,
               arg |-> kids]
    ELSE [st |-> st, arg |-> kids,
          oms |-> [r.oms EXCEPT ![h] =
                      OptionManager_set(OptionsOf(h), r.oms[h], "actors", PyList(kids)).om],
          ret |-> None, stored |-> TRUE]

\* a setter that runs the shape check first and touches nothing if it fails
actors_setter_check_first(st, oms, h, kids, check) ==
    IF check = "reject"
    THEN [st |-> st, oms |-> oms, ret |-> Raised("Exception"), stored |-> FALSE,
          arg |-> kids]
    ELSE store_actors(unique_names(oms, kids, <<>>), set_parents(st, kids, h), h, kids,
                      check)

\* ActorHandler.actors (the setter); every element of kids is an Actor
actors_setter(st, oms, h, kids, check) ==
    store_actors(unique_names(oms, kids, <<>>), set_parents(st, kids, h), h, kids, check)

\* the list object append() works on is the stored list or, if no list was
\* stored, the default list; it grows before the setter runs
appended(oms, h, list) ==
    IF "actors" \in DOMAIN oms[h].values
    THEN [oms EXCEPT ![h].values["actors"] = PyList(list)]
    ELSE oms

\* what became of the default list
default_after(h, list, from_default, stored) ==
    [def_actors EXCEPT ![h] =
        [l |-> IF from_default \/ def_actors[h].shared THEN list ELSE @.l,
         shared |-> IF stored THEN (from_default \/ def_actors[h].shared) ELSE @.shared]]

----------------------------------------------------------------------------
(* SpecAssign: the host builds the handler H and the actors S, T and G     *)
(* without sub-actors, names them, and assigns lists of them to H.         *)

MaxKids == 3

POOL == {"S", "T", "G"}

\* the lists the host assigns: distinct actors of the pool
KID_LISTS ==
    UNION { {l \in [1..n -> POOL] : \A i, j \in 1..n : i # j => l[i] # l[j]} :
                n \in 0..MaxKids }

\* the actors whose name the host binds to a variable and whose store it fills
BINDABLE == {"S"}

\* what the host passes to a.set("name", ...)
NAME_VALUES(a) ==
    IF a \in BINDABLE THEN {PyStr(<<"A">>), PyStr(pad_var(KEY))} ELSE {PyStr(<<"A">>)}

\* what _check_actors of the handler's class says
CHECKS == {"ok", "reject"}

\* the names of a list of actors, as Actor.name gives them
NamesOf(kids) == [k \in 1..Len(kids) |-> Actor_name(kids[k])]

InitAssign ==
    /\ OMInit
    /\ parent = [a \in Actors |-> "none"]
    /\ stopped = [a \in Actors |-> FALSE]
    /\ log_prefix = [a \in Actors |-> None]
    /\ variables_changed = [a \in Actors |-> FALSE]
    /\ variables_detected = [a \in Actors |-> <<>>]
    /\ input = [a \in Consumers |-> None]
    /\ output = [a \in Transformers |-> PyList(<<>>)]
    /\ director = [h \in Handlers |-> NoDirector]
    /\ def_actors = [h \in Handlers |-> [l |-> <<>>, shared |-> FALSE]]
    /\ opt_var = [a \in Actors |-> [n \in OptionNames(OptionsOf(a)) |-> None]]
    /\ opt_values = [a \in Actors |-> EmptyMap]
    /\ vstore = [a \in Actors |-> a]
    /\ vdata = [s \in Actors |-> EmptyMap]
    /\ vlisteners = [s \in Actors |-> {}]
    /\ last = LastInit("H")
    /\ RestInit

\* the outcome of a call that changed option managers becomes the state
AssignCommit(r, def, op, h, before) ==
    /\ RecordArg([r.st EXCEPT !.ret = r.ret, !.exc = IsRaised(r.ret)], op, h, before,
                 r.arg)
    /\ opt_values' = [a \in Actors |-> r.oms[a].values]
    /\ opt_var' = [a \in Actors |-> r.oms[a].var]
    /\ def_actors' = def
    /\ UNCHANGED <<vstore, vdata>>

\* host: a.set("name", value)
SetName(a, value) ==
    AssignCommit([st |-> Cur,
                  oms |-> [OMs EXCEPT ![a] =
                              OptionManager_set(OptionsOf(a), OMof(a), "name", value).om],
                  ret |-> OptionManager_set(OptionsOf(a), OMof(a), "name", value).ret,
                  arg |-> <<>>],
                 def_actors, "set_name", a, <<>>)

\* host: h.actors = kids, with a list the host built
AssignActors(h, kids, check) ==
    AssignCommit(actors_setter(Cur, OMs, h, kids, check),
                 IF actors_setter(Cur, OMs, h, kids, check).stored
                 THEN [def_actors EXCEPT ![h].shared = FALSE] ELSE def_actors,
                 "actors", h, NamesOf(kids))

\* host: h.manage(kids)
Manage(h, kids, check) ==
    AssignCommit(actors_setter(Cur, OMs, h, kids, check),
                 IF actors_setter(Cur, OMs, h, kids, check).stored
                 THEN [def_actors EXCEPT ![h].shared = FALSE] ELSE def_actors,
                 "manage", h, NamesOf(kids))

\* host: h.append(a)
AppendActor(h, a, check) ==
    AssignCommit(actors_setter(Cur, appended(OMs, h, actors(h) \o <<a>>), h,
                               actors(h) \o <<a>>, check),
                 default_after(h, actors(h) \o <<a>>,
                     "actors" \notin DOMAIN opt_values[h],
                     actors_setter(Cur, appended(OMs, h, actors(h) \o <<a>>), h,
                                   actors(h) \o <<a>>, check).stored),
                 "append", h, NamesOf(actors(h) \o <<a>>))

\* the host configures the actors, hands a first list of them to the handler
\* and appends to it afterwards
Unassigned == \A a \in Actors : parent[a] = "none"

NextAssign ==
    \/ \E a \in POOL : \E value \in NAME_VALUES(a) :
            Unassigned /\ SetName(a, value) /\ UNCHANGED <<omvars, restvars>>
    \/ \E a \in BINDABLE :
            Unassigned /\ VarSet(a, KEY, PyStr(<<"A">>)) /\ UNCHANGED <<omvars, restvars>>
    \/ \E kids \in KID_LISTS, check \in CHECKS :
            /\ Unassigned
            /\ AssignActors("H", kids, check) /\ UNCHANGED <<omvars, restvars>>
    \/ \E kids \in KID_LISTS, check \in CHECKS :
            /\ Unassigned
            /\ Manage("H", kids, check) /\ UNCHANGED <<omvars, restvars>>
    \/ \E a \in POOL, check \in CHECKS :
            /\ ~InList(a, actors("H"))
            /\ Len(actors("H")) < MaxKids
            /\ AppendActor("H", a, check) /\ UNCHANGED <<omvars, restvars>>

SpecAssign == InitAssign /\ [][NextAssign]_vars

----------------------------------------------------------------------------
(* SpecFind: the host renames actors of the built flow, the handlers are   *)
(* of classes that allow standalones or not, and the two searches are      *)
(* called from every actor.                                                *)

\* the rest of the model while the flow is used
FlowInit ==
    OMInit /\ ActorInit /\ last = LastInit("H") /\ StoreInit /\ ExpandInit /\ TwinInit /\ DetectInit /\ SeqInit /\ ReaderInit

FlowRest == <<omvars, actorvars, storevars, expandvars, twinvars, detectvars, seqvars, readervars>>

\* the names the host gives with a.set("name", ...)
RENAMES ==
    {<<"a1", <<"Y">>>>, <<"b1", <<"Y">>>>, <<"b1", <<"X">>>>, <<"c1", <<"X">>>>,
     <<"R", <<"PB">>>>, <<"R", <<"R">>>>, <<"I", <<"PA">>>>, <<"I", <<"I">>>>}

\* the handlers whose class is not fixed by the model
INFO_HANDLERS == {"I", "PB"}

\* the names that are looked up
LOOKUPS == {<<"X">>, <<"Y">>, <<"Z">>}

\* where the searches start
STARTS == {"R", "b1", "PC", "a1", "I", "F"}

InitFind == FlowInit /\ CallInit

\* host: a.set("name", name) on an actor of the flow
Rename(a, name) ==
    /\ c_name' = [c_name EXCEPT ![a] = name]
    /\ c_last' = [CallIdle EXCEPT !.op = "set_name", !.actor = a, !.name = name]
    /\ UNCHANGED <<c_info, c_om, c_data, c_ref>>

\* the class of a handler: what its actor_handler_info answers
SetInfo(h, can_contain_standalones) ==
    /\ c_info' = [c_info EXCEPT ![h] = can_contain_standalones]
    /\ c_last' = [CallIdle EXCEPT !.op = "info", !.actor = h]
    /\ UNCHANGED <<c_name, c_om, c_data, c_ref>>

\* find_actor_handlers(actor, must_allow_standalones, include_same_level)
FindActorHandlers(actor, must_allow_standalones, include_same_level) ==
    /\ c_last' = [CallIdle EXCEPT
            !.op = "find_actor_handlers", !.actor = actor,
            !.must = must_allow_standalones, !.incl = include_same_level,
            !.handlers = find_actor_handlers(c_name, c_info, actor,
                             must_allow_standalones, include_same_level)]
    /\ UNCHANGED <<c_name, c_info, c_om, c_data, c_ref>>

\* find_callable_actor_recursive(actor, name)
FindCallableActor(actor, name) ==
    /\ c_last' = [CallIdle EXCEPT
            !.op = "find_callable_actor_recursive", !.actor = actor, !.name = name,
            !.handlers = find_actor_handlers(c_name, c_info, actor, TRUE, FALSE),
            !.found = find_callable_actor_recursive(c_name, c_info, actor, name)]
    /\ UNCHANGED <<c_name, c_info, c_om, c_data, c_ref>>

NextFind ==
    \/ \E r \in RENAMES : Rename(r[1], r[2]) /\ UNCHANGED FlowRest
    \/ \E h \in INFO_HANDLERS, b \in BOOLEAN : SetInfo(h, b) /\ UNCHANGED FlowRest
    \/ \E a \in STARTS, must \in BOOLEAN, incl \in BOOLEAN :
            FindActorHandlers(a, must, incl) /\ UNCHANGED FlowRest
    \/ \E a \in STARTS, name \in LOOKUPS :
            FindCallableActor(a, name) /\ UNCHANGED FlowRest

SpecFind == InitFind /\ [][NextFind]_vars

----------------------------------------------------------------------------
(* SpecCall: the host configures the callable actor R of the built flow,   *)
(* changes its variable, sets it up and executes it.                       *)

\* the variable callable_name is bound to
REF_KEY == <<"c">>

\* what the host passes to R.set("callable_name", ...)
CALLABLE_NAMES == {PyStr(<<"X">>), PyStr(<<"Z">>), PyStr(pad_var(REF_KEY))}

\* what the host stores in the variable
REF_VALUES == {PyStr(<<"X">>), PyStr(<<"Y">>), PyStr(<<"Z">>)}

InitCall == FlowInit /\ CallInit

\* the callable_name of R now, and the actor it resolves to
callable_name == ref_get(c_om, c_data, "callable_name").s

Resolved == find_callable_actor_recursive(c_name, c_info, "R", callable_name)

\* host: R.set(name, value)
RefSet(name, value) ==
    /\ c_om' = OptionManager_set(CALLABLE_OPTIONS, c_om, name, value).om
    /\ c_last' = [CallIdle EXCEPT !.op = "set", !.actor = "R",
                    !.ret = OptionManager_set(CALLABLE_OPTIONS, c_om, name, value).ret]
    /\ UNCHANGED <<c_name, c_info, c_data, c_ref>>

\* host: R.variables.set(key, value)
RefVarSet(key, value) ==
    /\ c_data' = Variables_set(c_data, key, value).data
    /\ c_ref' = ref_notified(c_ref, key)
    /\ c_last' = [CallIdle EXCEPT !.op = "var_set", !.actor = "R"]
    /\ UNCHANGED <<c_name, c_info, c_om>>

\* host: R.setup()
RefSetup ==
    /\ c_ref' = callable_setup(c_name, c_info, c_ref, c_om, c_data).ref
    /\ c_last' = [CallIdle EXCEPT !.op = "setup", !.actor = "R",
                    !.ret = callable_setup(c_name, c_info, c_ref, c_om, c_data).ret,
                    !.resolving = ~OM_has_var(CALLABLE_OPTIONS, c_om, "callable_name")]
    /\ UNCHANGED <<c_name, c_info, c_om, c_data>>

\* host: R.execute()
RefExecute ==
    /\ c_ref' = callable_execute(c_name, c_info, c_ref, c_om, c_data).ref
    /\ c_last' = [CallIdle EXCEPT !.op = "execute", !.actor = "R",
                    !.ret = callable_execute(c_name, c_info, c_ref, c_om, c_data).ret,
                    !.ran = callable_execute(c_name, c_info, c_ref, c_om, c_data).ran,
                    !.changed = c_ref.variables_changed,
                    !.resolving =
                        ~callable_pre_execute(c_name, c_info, c_ref, c_om, c_data).configured]
    /\ UNCHANGED <<c_name, c_info, c_om, c_data>>

NextCall ==
    \/ \E value \in CALLABLE_NAMES : RefSet("callable_name", value) /\ UNCHANGED FlowRest
    \/ \E b \in BOOLEAN : RefSet("optional", PyBool(b)) /\ UNCHANGED FlowRest
    \/ \E value \in REF_VALUES : RefVarSet(REF_KEY, value) /\ UNCHANGED FlowRest
    \/ RefSetup /\ UNCHANGED FlowRest
    \/ RefExecute /\ UNCHANGED FlowRest

SpecCall == InitCall /\ [][NextCall]_vars

----------------------------------------------------------------------------
(* SpecStore: the host registers listeners with one Variables object and   *)
(* calls has, get, set, remove and clear with valid and invalid keys.      *)

\* how many events a listener of the model keeps
MaxEvents == 2

\* a valid key, the empty key and a key with a character outside VALID_CHARS
STORE_KEYS == {<<"k">>, <<>>, <<"k", "!">>}

\* the calls of set: two values for the valid key
STORE_SETS ==
    {<<<<"k">>, PyStr(<<"1">>)>>, <<<<"k">>, PyStr(<<"2">>)>>,
     <<<<>>, PyStr(<<"1">>)>>, <<<<"k", "!">>, PyStr(<<"1">>)>>}

StoreRest == <<omvars, actorvars, callvars, expandvars, twinvars, detectvars, seqvars, readervars>>

InitStore ==
    /\ OMInit /\ ActorInit /\ last = LastInit("H")
    /\ CallInit /\ ExpandInit /\ StoreInit /\ TwinInit /\ DetectInit /\ SeqInit /\ ReaderInit

\* the listeners have room for the event of one more call
Room == \A l \in LISTENERS : Len(s_events[l]) < MaxEvents

\* what a call leaves: the entries, the events delivered before it returns,
\* and the record of the call
StoreCommit(r, op, key) ==
    /\ s_data' = r.data
    /\ s_events' = notify_listeners(s_events, s_listeners, r.event)
    /\ s_last' = [op |-> op, key |-> key, ret |-> r.ret]
    /\ UNCHANGED s_listeners

\* host: variables.add_listener(l)
AddListener(l) ==
    /\ s_listeners' = s_listeners \cup {l}
    /\ s_last' = [StoreIdle EXCEPT !.op = "add_listener"]
    /\ UNCHANGED <<s_data, s_events>>

\* host: variables.set(key, value)
StoreSet(key, value) == StoreCommit(Variables_set(s_data, key, value), "set", key)

\* host: variables.remove(key)
StoreRemove(key) == StoreCommit(Variables_remove(s_data, key), "remove", key)

\* host: variables.clear()
StoreClear == StoreCommit(Variables_clear(s_data), "clear", <<>>)

\* host: variables.has(key)
StoreHas(key) ==
    StoreCommit([data |-> s_data, ret |-> Variables_has(s_data, key), event |-> NoEvent],
                "has", key)

\* host: variables.get(key)
StoreGet(key) ==
    StoreCommit([data |-> s_data, ret |-> Variables_get(s_data, key), event |-> NoEvent],
                "get", key)

NextStore ==
    \/ \E l \in LISTENERS : AddListener(l) /\ UNCHANGED StoreRest
    \/ \E c \in STORE_SETS : Room /\ StoreSet(c[1], c[2]) /\ UNCHANGED StoreRest
    \/ \E key \in STORE_KEYS : Room /\ StoreRemove(key) /\ UNCHANGED StoreRest
    \/ Room /\ StoreClear /\ UNCHANGED StoreRest
    \/ \E key \in STORE_KEYS : StoreHas(key) /\ UNCHANGED StoreRest
    \/ \E key \in STORE_KEYS : StoreGet(key) /\ UNCHANGED StoreRest

SpecStore == InitStore /\ [][NextStore]_vars

----------------------------------------------------------------------------
(* SpecExpand: the host fills a store and calls expand; the loop of expand *)
(* runs one pass per step.                                                 *)

\* the passes the model follows a call for
MaxPasses == 4

Ref(name) == pad_var(name)

\* the strings the host expands
EXPAND_INPUTS ==
    { Ref(<<"a">>) \o <<"-">> \o Ref(<<"b">>),
      Ref(<<"m", "i", "s", "s", "i", "n", "g">>),
      Ref(<<"a">>),
      <<"p">> \o Ref(<<"b">>) \o <<"q">>,
      <<"}", "@", "{", "a">>,
      Ref(<<"a", " ", "b">>),
      <<"p", "q">> }

\* what the host stores: plain values, a number, references to a and to b
EXPAND_ENTRIES ==
    { <<<<"a">>, PyStr(<<"x">>)>>, <<<<"a">>, PyInt(12)>>,
      <<<<"a">>, PyStr(Ref(<<"a">>))>>, <<<<"a">>, PyStr(Ref(<<"b">>))>>,
      <<<<"b">>, PyStr(<<"y">>)>>, <<<<"b">>, PyStr(Ref(<<"a">>))>> }

ExpandRest == <<omvars, actorvars, callvars, storevars, twinvars, detectvars, seqvars, readervars>>

InitExpand ==
    /\ OMInit /\ ActorInit /\ last = LastInit("H")
    /\ CallInit /\ StoreInit /\ ExpandInit /\ TwinInit /\ DetectInit /\ SeqInit /\ ReaderInit

\* host: variables.set(key, value), between two calls of expand
ExpandStoreSet(key, value) ==
    /\ e_pc # "loop"
    /\ e_data' = Variables_set(e_data, key, value).data
    /\ e_pc' = "idle"
    /\ UNCHANGED <<e_s, e_result, e_passes>>

\* host: expand(s, variables), up to the loop
ExpandCall(s) ==
    /\ e_pc # "loop"
    /\ e_s' = s
    /\ e_result' = s
    /\ e_passes' = 0
    /\ e_pc' = "loop"
    /\ UNCHANGED e_data

\* expand, lines 128-132, with what _do_expand answered
after_pass(r) ==
    /\ e_passes' = e_passes + 1
    /\ e_result' = IF r.exc THEN e_result ELSE r.result
    /\ e_pc' = IF r.exc THEN "raised"
               ELSE IF ~r.expanded THEN "returned"
               ELSE IF ~contains(r.result, VAR_START) THEN "returned"
               ELSE "loop"
    /\ UNCHANGED <<e_data, e_s>>

\* expand: one turn of the loop
ExpandPass ==
    /\ e_pc = "loop"
    /\ e_passes < MaxPasses
    /\ after_pass(do_expand(e_result, e_data))

NextExpand ==
    \/ \E e \in EXPAND_ENTRIES : ExpandStoreSet(e[1], e[2]) /\ UNCHANGED ExpandRest
    \/ \E s \in EXPAND_INPUTS : ExpandCall(s) /\ UNCHANGED ExpandRest
    \/ ExpandPass /\ UNCHANGED ExpandRest

SpecExpand == InitExpand /\ [][NextExpand]_vars

----------------------------------------------------------------------------
(* SpecTwin: the host gives one Variables object and one Storage object    *)
(* the same calls, with the same listener objects, keys and values.        *)

\* two valid keys and a key with a character outside VALID_CHARS
TWIN_KEYS == {<<"k">>, <<"j">>, <<"k", "!">>}

TWIN_SETS ==
    {<<<<"k">>, PyStr(<<"1">>)>>, <<<<"k">>, PyStr(<<"2">>)>>,
     <<<<"j">>, PyStr(<<"1">>)>>, <<<<"k", "!">>, PyStr(<<"1">>)>>}

\* the entries of the store handed to merge, in the order of its keys()
MERGE_SOURCES ==
    {<<>>, <<<<<<"k">>, PyStr(<<"1">>)>>>>,
     <<<<<<"k">>, PyStr(<<"2">>)>>, <<<<"j">>, PyStr(<<"1">>)>>>>}

TwinRest == <<omvars, actorvars, callvars, storevars, expandvars, detectvars, seqvars, readervars>>

InitTwin ==
    /\ OMInit /\ ActorInit /\ last = LastInit("H")
    /\ CallInit /\ StoreInit /\ ExpandInit /\ TwinInit /\ DetectInit /\ SeqInit /\ ReaderInit

\* both objects hold the same listeners in sets built by the same sequence of
\* add and remove, so a loop over them runs in the same order
SameOrder(ov, os) == tv_listeners = ts_listeners => ov = os

\* the results of one call on the Variables object (v) and on the Storage
\* object (s) become the state
TwinCommit(v, s, op, arg) ==
    /\ tv_data' = v.data /\ tv_sent' = v.sent /\ tv_ret' = v.ret
    /\ ts_data' = s.data /\ ts_sent' = s.sent /\ ts_ret' = s.ret
    /\ t_call' = [op |-> op, arg |-> arg]
    /\ UNCHANGED <<tv_listeners, ts_listeners>>

\* add_listener(l) on both
TwinAddListener(l) ==
    /\ tv_listeners' = tv_listeners \cup {l}
    /\ ts_listeners' = ts_listeners \cup {l}
    /\ tv_sent' = NothingSent /\ ts_sent' = NothingSent
    /\ tv_ret' = None /\ ts_ret' = None
    /\ t_call' = [op |-> "add_listener", arg |-> l]
    /\ UNCHANGED <<tv_data, ts_data>>

\* remove_listener(l) on both
TwinRemoveListener(l) ==
    /\ tv_listeners' = Variables_remove_listener(tv_listeners, l).listeners
    /\ tv_ret' = Variables_remove_listener(tv_listeners, l).ret
    /\ ts_listeners' = Storage_remove_listener(ts_listeners, l).listeners
    /\ ts_ret' = Storage_remove_listener(ts_listeners, l).ret
    /\ tv_sent' = NothingSent /\ ts_sent' = NothingSent
    /\ t_call' = [op |-> "remove_listener", arg |-> l]
    /\ UNCHANGED <<tv_data, ts_data>>

\* set(key, value) on both
TwinSet(key, value) ==
    \E ov \in Orders(tv_listeners), os \in Orders(ts_listeners) :
        /\ SameOrder(ov, os)
        /\ TwinCommit(Variables_set_notify(tv_data, ov, key, value, NothingSent),
                      Storage_set(ts_data, os, key, value, NothingSent), "set", key)

\* remove(key) on both
TwinRemove(key) ==
    \E ov \in Orders(tv_listeners), os \in Orders(ts_listeners) :
        /\ SameOrder(ov, os)
        /\ TwinCommit(Variables_remove_notify(tv_data, ov, key, NothingSent),
                      Storage_remove(ts_data, os, key, NothingSent), "remove", key)

\* clear() on both
TwinClear ==
    \E ov \in Orders(tv_listeners), os \in Orders(ts_listeners) :
        /\ SameOrder(ov, os)
        /\ TwinCommit(Variables_clear_notify(ov, NothingSent),
                      Storage_clear(os, NothingSent), "clear", <<>>)

\* merge(other) on both, other holding the entries src
TwinMerge(src) ==
    \E ov \in Orders(tv_listeners), os \in Orders(ts_listeners) :
        /\ SameOrder(ov, os)
        /\ TwinCommit(Variables_merge(tv_data, ov, src, 1, NothingSent),
                      Storage_merge(ts_data, os, src, 1, NothingSent), "merge", src)

\* has(key) on both
TwinHas(key) ==
    TwinCommit([data |-> tv_data, sent |-> NothingSent, ret |-> Variables_has(tv_data, key)],
               [data |-> ts_data, sent |-> NothingSent, ret |-> Storage_has(ts_data, key)],
               "has", key)

\* get(key) on both
TwinGet(key) ==
    TwinCommit([data |-> tv_data, sent |-> NothingSent, ret |-> Variables_get(tv_data, key)],
               [data |-> ts_data, sent |-> NothingSent, ret |-> Storage_get(ts_data, key)],
               "get", key)

NextTwin ==
    \/ \E l \in LISTENER_OBJECTS : TwinAddListener(l) /\ UNCHANGED TwinRest
    \/ \E l \in LISTENER_OBJECTS : TwinRemoveListener(l) /\ UNCHANGED TwinRest
    \/ \E c \in TWIN_SETS : TwinSet(c[1], c[2]) /\ UNCHANGED TwinRest
    \/ \E key \in TWIN_KEYS : TwinRemove(key) /\ UNCHANGED TwinRest
    \/ TwinClear /\ UNCHANGED TwinRest
    \/ \E src \in MERGE_SOURCES : TwinMerge(src) /\ UNCHANGED TwinRest
    \/ \E key \in TWIN_KEYS : TwinHas(key) /\ UNCHANGED TwinRest
    \/ \E key \in TWIN_KEYS : TwinGet(key) /\ UNCHANGED TwinRest

SpecTwin == InitTwin /\ [][NextTwin]_vars

----------------------------------------------------------------------------
(* SpecLife: the host sets up the handlers, wraps up and cleans up the     *)
(* root (and wraps up a leaf), hands a store down with update_variables    *)
(* and sets a variable of the root's store.                                *)
(* In a setup the checks of one actor may fail: setup() of a leaf or       *)
(* _check_actors of a handler.                                             *)

\* the actor whose check fails in one setup, as a list
LIFE_FAILING == {<<>>, <<"S">>, <<"G">>, <<"T">>}

\* h.update_variables(store): <<h, store>>, the store named by the actor it
\* was built with
UPDATE_CALLS == {<<"H", "H">>, <<"G", "G">>}

\* the actors the host wraps up itself
WRAPPED == {"H", "S"}

\* the value the host gives the variable v of the root's store
LIFE_VALUE == PyStr(<<"x">>)

InitLife == OMInit /\ ActorInit /\ last = LastInit("H") /\ RestInit

\* host: a.setup(), with the checks of the actors in F failing; the record of
\* the call keeps the director the handler had when the call started
LifeSetup(a, F) ==
    /\ RecordArg(setup(Cur, a, {F[k] : k \in 1..Len(F)}), "setup", a,
                 <<director[a]>>, F)
    /\ UNCHANGED <<opt_var, opt_values, def_actors, vstore, vdata>>

\* host: a.wrap_up()
WrapUp(a) == Commit(wrap_up(Cur, a), "wrap_up", a)

\* host: a.clean_up()
CleanUp(a) == Commit(clean_up(Cur, a), "clean_up", a)

\* the stores and listeners after update_variables become the state
UpdateCommit(u, a) ==
    /\ vstore' = u.vstore
    /\ vlisteners' = u.vlisteners
    /\ last' = [LastInit(a) EXCEPT !.op = "update_variables"]
    /\ UNCHANGED <<parent, stopped, log_prefix, variables_changed, variables_detected,
                   input, output, director, opt_var, opt_values, def_actors, vdata>>

\* host: a.update_variables(store)
UpdateVariables(a, store) ==
    UpdateCommit(update_variables([vstore |-> vstore, vlisteners |-> vlisteners],
                                  a, store), a)

NextLife ==
    \/ \E a \in Handlers, F \in LIFE_FAILING :
            LifeSetup(a, F) /\ UNCHANGED <<omvars, restvars>>
    \/ \E a \in WRAPPED : WrapUp(a) /\ UNCHANGED <<omvars, restvars>>
    \/ CleanUp("H") /\ UNCHANGED <<omvars, restvars>>
    \/ \E c \in UPDATE_CALLS : UpdateVariables(c[1], c[2]) /\ UNCHANGED <<omvars, restvars>>
    \/ VarSet("H", KEY, LIFE_VALUE) /\ UNCHANGED <<omvars, restvars>>

SpecLife == InitLife /\ [][NextLife]_vars

----------------------------------------------------------------------------
(* SpecDetect: the host binds variables to options of the four objects,    *)
(* stores conditions and actors in the options of M and calls              *)
(* M.option_manager.detect_vars.                                           *)

\* set_var(name, var) on the manager of an object: <<object, name, var>>
BINDINGS ==
    {<<"M", "debug", <<"m">>>>, <<"M", "conditions", <<"c">>>>,
     <<"D", "debug", <<"d">>>>, <<"N", "debug", <<"n">>>>, <<"A", "name", <<"a">>>>}

\* M.set(name, value)
DETECT_SETS ==
    {<<"condition", Obj("N")>>, <<"conditions", PyList(<<"N">>)>>,
     <<"conditions", PyList(<<"D", "N">>)>>, <<"actors", PyList(<<"A">>)>>}

\* the values of the parameter skip
SKIPS == {None, PyList(<<"Actor">>), PyList(<<"AbstractBooleanCondition">>)}

DetectRest == <<omvars, actorvars, callvars, storevars, expandvars, twinvars, seqvars, readervars>>

InitDetect ==
    /\ OMInit /\ ActorInit /\ last = LastInit("H")
    /\ CallInit /\ StoreInit /\ ExpandInit /\ TwinInit /\ DetectInit /\ SeqInit /\ ReaderInit

DetectOM(o) == [values |-> dt_values[o], var |-> dt_var[o]]

\* the manager of o after a call, and the record of the call
DetectCommit(r, o, op) ==
    /\ dt_var' = [dt_var EXCEPT ![o] = r.om.var]
    /\ dt_values' = [dt_values EXCEPT ![o] = r.om.values]
    /\ dt_last' = [op |-> op, skip |-> None, ret |-> r.ret]

\* host: o.option_manager.set_var(name, var)
DetectSetVar(o, name, var) ==
    DetectCommit(OptionManager_set_var(DETECT_OPTIONS(o), DetectOM(o), name, var),
                 o, "set_var")

\* host: o.option_manager.remove_var(name)
DetectRemoveVar(o, name) ==
    DetectCommit(OptionManager_remove_var(DETECT_OPTIONS(o), DetectOM(o), name),
                 o, "remove_var")

\* host: M.set(name, value)
DetectSet(name, value) ==
    DetectCommit(OptionManager_set(DETECT_OPTIONS("M"), DetectOM("M"), name, value),
                 "M", "set")

\* host: M.option_manager.reset()
DetectReset ==
    DetectCommit([om |-> OptionManager_reset(DetectOM("M")), ret |-> None], "M", "reset")

\* host: M.option_manager.detect_vars(skip)
DetectVars(skip) ==
    /\ dt_last' = [op |-> "detect_vars", skip |-> skip,
                   ret |-> PyList(OptionManager_detect_vars(dt_var, dt_values, "M", skip))]
    /\ UNCHANGED <<dt_var, dt_values>>

NextDetect ==
    \/ \E b \in BINDINGS : DetectSetVar(b[1], b[2], b[3]) /\ UNCHANGED DetectRest
    \/ \E b \in BINDINGS : DetectRemoveVar(b[1], b[2]) /\ UNCHANGED DetectRest
    \/ \E c \in DETECT_SETS : DetectSet(c[1], c[2]) /\ UNCHANGED DetectRest
    \/ DetectReset /\ UNCHANGED DetectRest
    \/ \E skip \in SKIPS : DetectVars(skip) /\ UNCHANGED DetectRest

SpecDetect == InitDetect /\ [][NextDetect]_vars

----------------------------------------------------------------------------
(* SpecSkip: the host builds the actors of the pool, names some "A", flags *)
(* some as skipped, assigns a list of them to H, sets H up and asks for    *)
(* first_active and last_active.                                           *)

\* Actor.is_skipped
is_skipped(a) == Actor_get(a, "skip").b

RECURSIVE first_unskipped(_)
\* the loop of first_active over the list
first_unskipped(kids) ==
    IF kids = <<>> THEN None
    ELSE IF ~is_skipped(kids[1]) THEN Obj(kids[1])
    ELSE first_unskipped(Tail(kids))

\* a first_active that ignores the skip option
first_child(h) == IF actors(h) = <<>> THEN None ELSE Obj(actors(h)[1])

\* ActorHandler.first_active
first_active(h) == first_unskipped(actors(h))

RECURSIVE last_unskipped(_, _)
\* the loop of last_active: for i in range(len(self.actors) - 1, -1, -1),
\* i counted from 1 here
last_unskipped(kids, i) ==
    IF i < 1 THEN None
    ELSE IF ~is_skipped(kids[i]) THEN Obj(kids[i])
    ELSE last_unskipped(kids, i - 1)

\* ActorHandler.last_active
last_active(h) == last_unskipped(actors(h), Len(actors(h)))

\* host: a.set("skip", value)
SetSkip(a, value) ==
    AssignCommit([st |-> Cur,
                  oms |-> [OMs EXCEPT ![a] =
                              OptionManager_set(OptionsOf(a), OMof(a), "skip", value).om],
                  ret |-> OptionManager_set(OptionsOf(a), OMof(a), "skip", value).ret,
                  arg |-> <<>>],
                 def_actors, "set_skip", a, <<>>)

\* host: h.first_active
FirstActive(h) == Commit([Cur EXCEPT !.ret = first_active(h)], "first_active", h)

\* host: h.last_active
LastActive(h) == Commit([Cur EXCEPT !.ret = last_active(h)], "last_active", h)

NextSkip ==
    \/ \E a \in POOL : Unassigned /\ SetName(a, PyStr(<<"A">>)) /\ UNCHANGED <<omvars, restvars>>
    \/ \E a \in POOL :
            Unassigned /\ SetSkip(a, PyBool(TRUE)) /\ UNCHANGED <<omvars, restvars>>
    \/ \E kids \in KID_LISTS :
            Unassigned /\ AssignActors("H", kids, "ok") /\ UNCHANGED <<omvars, restvars>>
    \/ LifeSetup("H", <<>>) /\ UNCHANGED <<omvars, restvars>>
    \/ FirstActive("H") /\ UNCHANGED <<omvars, restvars>>
    \/ LastActive("H") /\ UNCHANGED <<omvars, restvars>>

SpecSkip == InitAssign /\ [][NextSkip]_vars

----------------------------------------------------------------------------
(* An ActorHandler object and its dictionary form: the host configures it, *)
(* reads its options as a dictionary, sets them from a dictionary, and     *)
(* passes it through optionhandler_to_dict and dict_to_optionhandler.      *)

ENC_OPTIONS == define_options("ActorHandler")

ENC_KEY == <<"v">>

\* the object the om_ variables describe
EncSelf ==
    [cls |-> "ActorHandler", values |-> om_values, var |-> om_var, data |-> om_data]

\* the children the host puts into "actors": as constructed, with a name,
\* and with a name and a variable bound to "name"
LeafNew == new_handler("Actor")
LeafNamed == [LeafNew EXCEPT !.values = data_set(EmptyMap, "name", PyStr(<<"x">>))]
LeafBound == [LeafNamed EXCEPT !.var["name"] = PyStr(ENC_KEY)]

ENC_LISTS == {PyList(<<>>), PyList(<<LeafNew>>), PyList(<<LeafNamed, LeafBound>>)}

ENC_SETS ==
    ({"name"} \X {PyStr(<<>>), PyStr(<<"x">>), PyStr(pad_var(ENC_KEY))})
    \cup ({"debug"} \X {PyBool(TRUE)})
    \cup ({"actors"} \X ENC_LISTS)

ENC_ENTRIES ==
    { <<"name", PyStr(<<"x">>)>>, <<"name", PyStr(pad_var(ENC_KEY))>>,
      <<"debug", PyInt(3)>>, <<"debug", PyStr(<<"y">>)>>,
      <<"actors", PyList(<<optionhandler_to_dict(LeafNamed)>>)>> }

UNKNOWN_ENTRY == <<"bogus", PyStr(<<"x">>)>>

\* dictionaries in insertion order: one declared key, with the undeclared
\* key before or after it or without it, and the undeclared key alone
ENC_DICTS ==
    {<<e>> : e \in ENC_ENTRIES \cup {UNKNOWN_ENTRY}}
    \cup {<<UNKNOWN_ENTRY, e>> : e \in ENC_ENTRIES}
    \cup {<<e, UNKNOWN_ENTRY>> : e \in ENC_ENTRIES}

EncRest == UNCHANGED <<actorvars, restvars>>

InitEnc ==
    /\ om_values = EmptyMap
    /\ om_var = [n \in OptionNames(ENC_OPTIONS) |-> None]
    /\ om_data = EmptyMap
    /\ om_ret = [op |-> "init", name |-> "", value |-> None, ret |-> None]
    /\ om_hist = HistIdle
    /\ ActorInit /\ last = LastInit("H") /\ RestInit

\* host: x.set(name, value)
EncSet(name, value) ==
    /\ OMCommit(OptionManager_set(ENC_OPTIONS, OMcur, name, value),
                "set", name, value, om_hist)
    /\ EncRest

\* host: x.option_manager.set_var(name, var)
EncSetVar(name) ==
    /\ OMCommit(OptionManager_set_var(ENC_OPTIONS, OMcur, name, ENC_KEY),
                "set_var", name, None, om_hist)
    /\ EncRest

\* host: x.option_manager.remove_var(name)
EncRemoveVar(name) ==
    /\ OMCommit(OptionManager_remove_var(ENC_OPTIONS, OMcur, name),
                "remove_var", name, None, om_hist)
    /\ EncRest

\* host: x.variables.set(ENC_KEY, value) and x.variables.clear()
EncVarSet(value) ==
    /\ om_data' = data_set(om_data, ENC_KEY, value)
    /\ om_ret' = [op |-> "var_set", name |-> "", value |-> value, ret |-> None]
    /\ UNCHANGED <<om_values, om_var, om_hist>>
    /\ EncRest

EncVarClear ==
    /\ om_data' = EmptyMap
    /\ om_ret' = [op |-> "var_clear", name |-> "", value |-> None, ret |-> None]
    /\ UNCHANGED <<om_values, om_var, om_hist>>
    /\ EncRest

\* host: x.option_manager.to_dict(skip_default)
EncToDict(skip_default) ==
    /\ om_ret' = [op |-> "to_dict", name |-> "", value |-> PyBool(skip_default),
                  ret |-> PyDict(OptionManager_to_dict(ENC_OPTIONS, OMcur, om_data,
                                                       skip_default))]
    /\ UNCHANGED <<om_values, om_var, om_data, om_hist>>
    /\ EncRest

\* host: x.option_manager.from_dict(d); the manager before the call is kept
EncFromDict(d) ==
    LET r == OptionManager_from_dict(ENC_OPTIONS, OMcur, om_data, d) IN
    /\ om_values' = r.om.values
    /\ om_var' = r.om.var
    /\ om_ret' = [op |-> "from_dict", name |-> "", value |-> PyDict(d),
                  ret |-> r.ret, before |-> OMcur]
    /\ UNCHANGED <<om_data, om_hist>>
    /\ EncRest

\* what the host holds after the three calls
RoundTripCommit(d, y) ==
    /\ om_ret' = [op |-> "round_trip", name |-> "", value |-> d, ret |-> y,
                  again |-> IF IsRaised(y) THEN y ELSE optionhandler_to_dict(y)]
    /\ UNCHANGED <<om_values, om_var, om_data, om_hist>>
    /\ EncRest

RoundTripDecode(d) == RoundTripCommit(d, dict_to_optionhandler(d))

\* host: d = optionhandler_to_dict(x); y = dict_to_optionhandler(d);
\* again = optionhandler_to_dict(y)
EncRoundTrip == RoundTripDecode(optionhandler_to_dict(EncSelf))

NextEnc ==
    \/ \E c \in ENC_SETS : EncSet(c[1], c[2])
    \/ \E name \in {"name", "actors"} : EncSetVar(name)
    \/ \E name \in {"name", "actors"} : EncRemoveVar(name)
    \/ EncVarSet(PyStr(<<"y">>))
    \/ EncVarClear
    \/ \E skip_default \in BOOLEAN : EncToDict(skip_default)
    \/ \E d \in ENC_DICTS : EncFromDict(d)
    \/ EncRoundTrip

SpecEnc == InitEnc /\ [][NextEnc]_vars

----------------------------------------------------------------------------
(* The sequential director on [source, transformer, sink]: it executes the *)
(* source, then feeds every output of a producer to the next consumer and  *)
(* executes that consumer, the most downstream producer first.             *)

SeqRest == UNCHANGED <<omvars, actorvars, callvars, storevars, expandvars,
                       twinvars, detectvars, readervars>>

InitSeq ==
    /\ OMInit /\ ActorInit /\ last = LastInit("H")
    /\ CallInit /\ StoreInit /\ ExpandInit /\ TwinInit /\ DetectInit /\ SeqInit /\ ReaderInit

\* host: builds the flow; the source will emit items
SeqBuild(items) ==
    /\ q_pc \in {"new", "done"}
    /\ q_items' = items
    /\ q_out' = SeqIdle
    /\ q_in' = [T |-> None, K |-> None]
    /\ q_collected' = <<>>
    /\ q_pc' = "built"
    /\ q_ret' = None
    /\ UNCHANGED q_stopped
    /\ SeqRest

\* AbstractDirector.execute up to the first sub-actor: the flag is reset,
\* _check passes, and the source's execute() fills its _output
SeqExecute ==
    /\ q_pc = "built"
    /\ q_stopped' = FALSE
    /\ IF IsNone(Director_check(<<"S", "T", "K">>))
       THEN /\ q_out' = [q_out EXCEPT !.S = <<>> \o q_items]
            /\ q_pc' = "walk"
            /\ UNCHANGED q_ret
       ELSE /\ q_ret' = Director_check(<<"S", "T", "K">>)
            /\ q_pc' = "done"
            /\ UNCHANGED q_out
    /\ UNCHANGED <<q_items, q_in, q_collected>>
    /\ SeqRest

\* the director takes the next output of the source, hands it to the
\* transformer and executes the transformer, whose _post_execute drops the
\* input
SeqFeedTransformer ==
    /\ q_pc = "walk"
    /\ ~has_output(q_out.T)
    /\ has_output(q_out.S)
    /\ q_out' = [S |-> Producer_output(q_out.S).output,
                 T |-> Transformer_execute(q_out.T, Producer_output(q_out.S).result)]
    /\ q_in' = [q_in EXCEPT !.T = None]
    /\ UNCHANGED <<q_items, q_collected, q_stopped, q_pc, q_ret>>
    /\ SeqRest

\* the director takes the next output of the transformer, hands it to the
\* sink and executes the sink, whose _post_execute drops the input
SeqFeedSink ==
    /\ q_pc = "walk"
    /\ has_output(q_out.T)
    /\ q_out' = [q_out EXCEPT !.T = Producer_output(q_out.T).output]
    /\ q_collected' = Sink_execute(q_collected, Producer_output(q_out.T).result)
    /\ q_in' = [q_in EXCEPT !.K = None]
    /\ UNCHANGED <<q_items, q_stopped, q_pc, q_ret>>
    /\ SeqRest

\* no producer has output left: the director's execute returns None
SeqReturn ==
    /\ q_pc = "walk"
    /\ ~has_output(q_out.T) /\ ~has_output(q_out.S)
    /\ q_pc' = "done"
    /\ q_ret' = None
    /\ UNCHANGED <<q_items, q_out, q_in, q_collected, q_stopped>>
    /\ SeqRest

\* host: director.stop_execution(), at any time
SeqStop ==
    /\ ~q_stopped
    /\ q_stopped' = TRUE
    /\ UNCHANGED <<q_items, q_out, q_in, q_collected, q_pc, q_ret>>
    /\ SeqRest

NextSeq ==
    \/ \E items \in EMITS : SeqBuild(items)
    \/ SeqExecute
    \/ SeqFeedTransformer
    \/ SeqFeedSink
    \/ SeqReturn
    \/ SeqStop

SpecSeq == InitSeq /\ [][NextSeq]_vars

----------------------------------------------------------------------------
(* The registry of string readers: modules register their readers when     *)
(* they are imported, the host registers its own, and classes are looked   *)
(* up in between.                                                          *)

MaxReaders == 7

\* the readers registered after serialization/vars.py was imported
LATE_READERS == {"CallableActorReferenceStringReader", "OptionHandlerStringReader"}

READ_CLASSES == {"str", "int", "CallableActorReference", "Actor"}

ReaderRest == UNCHANGED <<omvars, actorvars, callvars, storevars, expandvars,
                          twinvars, detectvars, seqvars>>

InitReaders ==
    /\ OMInit /\ ActorInit /\ last = LastInit("H")
    /\ CallInit /\ StoreInit /\ ExpandInit /\ TwinInit /\ DetectInit /\ SeqInit
    /\ ReaderInit

\* add_string_reader(reader)
AddStringReader(reader) ==
    /\ Len(r_readers) < MaxReaders
    /\ r_readers' = Append(r_readers, reader)
    /\ r_last' = [op |-> "add", arg |-> reader, ret |-> "", missed |-> FALSE]
    /\ UNCHANGED r_cache
    /\ ReaderRest

\* get_string_reader(cls); missed: the cache held the placeholder for cls
GetStringReader(cls) ==
    /\ r_cache' = get_string_reader_cached(r_readers, r_cache, cls).cache
    /\ r_last' = [op |-> "get", arg |-> cls,
                  ret |-> get_string_reader_cached(r_readers, r_cache, cls).ret,
                  missed |-> cls \in DOMAIN r_cache /\ IsBool(r_cache[cls])]
    /\ UNCHANGED r_readers
    /\ ReaderRest

NextReaders ==
    \/ \E reader \in LATE_READERS : AddStringReader(reader)
    \/ \E cls \in READ_CLASSES : GetStringReader(cls)

SpecReaders == InitReaders /\ [][NextReaders]_vars

----------------------------------------------------------------------------
(* SpecBind: the option manager of SpecOM with references to a variable    *)
(* whose name is not valid and with variable values outside the bounds of  *)
(* the numeric option.                                                     *)

BAD_KEY == <<"b", "!">>

BIND_KEYS == {<<"v">>, BAD_KEY}

BIND_SETS ==
    ({"num"} \X ({PyInt(2), PyInt(3)} \cup {PyStr(pad_var(k)) : k \in BIND_KEYS}))
    \cup ({"name"} \X {PyStr(<<"x">>), PyStr(pad_var(BAD_KEY))})

\* what the host stores in v: numerals inside and outside the bounds of num
BIND_VALUES == {PyStr(<<"2">>), PyStr(<<"3">>), PyStr(<<"-", "1">>)}

BIND_DICTS ==
    { << <<"num", PyStr(pad_var(<<"v">>))>> >>,
      << <<"num", PyStr(pad_var(BAD_KEY))>> >>,
      << <<"num", PyStr(<<"3">>)>>, <<"name", PyStr(<<"x">>)>> >>,
      << <<"name", PyStr(pad_var(<<"v">>))>>, <<"num", PyInt(0)>> >> }

BindRest == UNCHANGED <<actorvars, restvars>>

NextBind ==
    \/ \E c \in BIND_SETS : OMSet(c[1], c[2]) /\ BindRest
    \/ \E name \in OptionNames(OM_OPTIONS) : OMGet(name) /\ BindRest
    \/ \E name \in OptionNames(OM_OPTIONS), key \in BIND_KEYS :
            OMSetVar(name, key) /\ BindRest
    \/ \E name \in OptionNames(OM_OPTIONS) : OMRemoveVar(name) /\ BindRest
    \/ \E d \in BIND_DICTS : OMFromDict(d) /\ BindRest
    \/ \E value \in BIND_VALUES : OMVarSet(<<"v">>, value) /\ BindRest
    \/ OMVarRemove(<<"v">>) /\ BindRest

InitBind == OMInit /\ ActorInit /\ last = LastInit("H") /\ RestInit

SpecBind == InitBind /\ [][NextBind]_vars

----------------------------------------------------------------------------
(* SpecMutable: the host assigns, appends, removes and clears the          *)
(* sub-actors of the MutableActorHandler H and resets its option manager.  *)

\* the list without the first occurrence of a (list.remove)
RECURSIVE list_remove(_, _)
list_remove(list, a) ==
    IF list = <<>> THEN <<>>
    ELSE IF list[1] = a THEN Tail(list)
    ELSE <<list[1]>> \o list_remove(Tail(list), a)

\* host: h.remove(a), for an actor of the list: the list object is changed
\* and handed to the setter
RemoveActor(h, a, check) ==
    AssignCommit(actors_setter(Cur, appended(OMs, h, list_remove(actors(h), a)), h,
                               list_remove(actors(h), a), check),
                 default_after(h, list_remove(actors(h), a),
                     "actors" \notin DOMAIN opt_values[h],
                     actors_setter(Cur, appended(OMs, h, list_remove(actors(h), a)), h,
                                   list_remove(actors(h), a), check).stored),
                 "remove", h, NamesOf(list_remove(actors(h), a)))

\* host: h.clear(), which assigns a new empty list
ClearActors(h, check) ==
    AssignCommit(actors_setter(Cur, OMs, h, <<>>, check),
                 IF actors_setter(Cur, OMs, h, <<>>, check).stored
                 THEN [def_actors EXCEPT ![h].shared = FALSE] ELSE def_actors,
                 "clear", h, <<>>)

\* host: h.option_manager.reset()
ResetOptions(h) ==
    AssignCommit([st |-> Cur,
                  oms |-> [OMs EXCEPT ![h] = OptionManager_reset(OMof(h))],
                  ret |-> None, arg |-> <<>>],
                 [def_actors EXCEPT ![h].shared = FALSE], "reset", h, <<>>)

MutableRest == UNCHANGED <<omvars, restvars>>

NextMutable ==
    \/ \E kids \in KID_LISTS, check \in CHECKS :
            AssignActors("H", kids, check) /\ MutableRest
    \/ \E a \in POOL, check \in CHECKS :
            /\ ~InList(a, actors("H"))
            /\ Len(actors("H")) < MaxKids
            /\ AppendActor("H", a, check) /\ MutableRest
    \/ \E a \in POOL, check \in CHECKS :
            /\ InList(a, actors("H"))
            /\ RemoveActor("H", a, check) /\ MutableRest
    \/ \E check \in CHECKS : ClearActors("H", check) /\ MutableRest
    \/ ResetOptions("H") /\ MutableRest

SpecMutable == InitAssign /\ [][NextMutable]_vars

InitOM == OMInit /\ ActorInit /\ last = LastInit("H") /\ RestInit

NextOM ==
    \/ \E c \in SET_CALLS : OMSet(c[1], c[2]) /\ UNCHANGED <<actorvars, restvars>>
    \/ \E name \in OM_NAMES : OMGet(name) /\ UNCHANGED <<actorvars, restvars>>
    \/ \E name \in OM_NAMES, key \in KEYS \cup {<<"b", "!">>} :
            OMSetVar(name, key) /\ UNCHANGED <<actorvars, restvars>>
    \/ \E name \in OM_NAMES : OMRemoveVar(name) /\ UNCHANGED <<actorvars, restvars>>
    \/ OMReset /\ UNCHANGED <<actorvars, restvars>>
    \/ \E d \in DICTS : OMFromDict(d) /\ UNCHANGED <<actorvars, restvars>>
    \/ \E e \in STORE_ENTRIES : OMVarSet(e[1], e[2]) /\ UNCHANGED <<actorvars, restvars>>
    \/ \E key \in KEYS : OMVarRemove(key) /\ UNCHANGED <<actorvars, restvars>>
    \/ OMVarClear /\ UNCHANGED <<actorvars, restvars>>

SpecOM == InitOM /\ [][NextOM]_vars

----------------------------------------------------------------------------
(* Claims about the actor life cycle *)

RECURSIVE DescendantsOf(_)
\* every actor below a handler
DescendantsOf(a) ==
    IF a \in Handlers
    THEN UNION { {actors(a)[k]} \cup DescendantsOf(actors(a)[k]) : k \in 1..Len(actors(a)) }
    ELSE {}

\* the last call was execute()
Executed == last.op = "execute"

\* the steps the executed actor ran itself, in order
OwnSteps ==
    LET own == SelectSeq(last.trace, LAMBDA e : e[1] = last.actor)
    IN  [k \in 1..Len(own) |-> own[k][2]]

Ran(step) == \E k \in 1..Len(OwnSteps) : OwnSteps[k] = step

\* C1: stop_execution() on a set-up ActorHandler leaves is_stopped true on the
\* handler, on its director and on every actor below it, nested handlers and
\* their directors included.
C1_StopReachesAll ==
    (last.op = "stop_execution" /\ last.actor \in Handlers /\ director[last.actor].attr) =>
        /\ ~last.exc
        /\ stopped[last.actor]
        /\ director[last.actor].stopped
        /\ \A a \in DescendantsOf(last.actor) :
                stopped[a] /\ (a \in Handlers => director[a].stopped)

\* the root was stopped after a setup: every actor of the tree is stopped
C1_Witness ==
    /\ last.op = "stop_execution"
    /\ last.actor = "H"
    /\ director["H"].attr
    /\ \A a \in Actors : stopped[a]

\* C2: execute() runs _pre_execute, _do_execute, _post_execute in this order
\* and stops at the first failure: after a failed _pre_execute neither of the
\* others runs, after a failed _do_execute _post_execute does not run, and the
\* first failure is what execute() returns.
C2_StopsAtFirstFailure ==
    Executed =>
        LET main == SelectSeq(OwnSteps, LAMBDA x :
                        x \in {"pre_execute", "do_execute", "post_execute"})
        IN  /\ main \in { <<"pre_execute">>, <<"pre_execute", "do_execute">>,
                          <<"pre_execute", "do_execute", "post_execute">> }
            /\ last.outcome.pre = "fail" =>
                    (~Ran("do_execute") /\ ~Ran("post_execute") /\ last.ret = Failure)
            /\ last.outcome.do = "fail" =>
                    (~Ran("post_execute") /\ last.ret = Failure)

\* C3: execute() never lets an exception out: whatever is raised inside one
\* of the three steps, an ActorHandler without director included, comes back
\* as a non-empty message.
C3_ExceptionsBecomeMessages ==
    Executed =>
        /\ ~IsRaised(last.ret)
        /\ last.exc => (IsStr(last.ret) /\ Len(last.ret.s) > 0)
        /\ (last.actor \in Handlers /\ ~director[last.actor].attr
                /\ last.outcome.pre = "ok")
              => (last.exc /\ IsStr(last.ret) /\ Len(last.ret.s) > 0)

\* a handler that was never set up was executed
C3_Witness ==
    /\ Executed
    /\ last.actor \in Handlers
    /\ ~director[last.actor].attr
    /\ last.outcome.do = "raise"
    /\ last.ret = Traceback

RECONFIGURATION == <<"backup_state", "reset", "setup", "restore_state">>

\* C4: an execute() that finds the changed flag set runs _backup_state,
\* reset, setup, _restore_state in this order, once, before _do_execute, and
\* leaves the flag cleared; an execute() that finds it clear runs none of them.
C4_ReconfigurationSequence ==
    Executed =>
        LET reconf == SelectSeq(OwnSteps, LAMBDA x :
                          \E k \in 1..Len(RECONFIGURATION) : RECONFIGURATION[k] = x)
        IN  IF last.changed
            THEN /\ reconf = RECONFIGURATION
                 /\ Len(OwnSteps) >= 5
                 /\ SubSeq(OwnSteps, 1, 5) = <<"pre_execute">> \o RECONFIGURATION
                 /\ ~variables_changed[last.actor]
            ELSE reconf = <<>>

\* a reconfiguring execute() that went on to _do_execute
C4_Witness ==
    /\ Executed
    /\ last.changed
    /\ Ran("do_execute")
    /\ last.outcome.do = "ok"

\* the full name as computed from the current option values
FreshFullName(a) ==
    IF parent[a] = "none" THEN Actor_name(a)
    ELSE get_log_prefix(Cur, parent[a]).ret.s \o <<".">> \o Actor_name(a)

\* C5: across a reconfiguring execute() of a sink or a transformer the input
\* handed over before is the input _do_execute finds, while what is derived
\* from the options (the detected variables, the cached full name) is
\* rebuilt from the current values.
C5_InputSurvivesReconfiguration ==
    (Executed /\ last.actor \in Consumers /\ last.changed) =>
        /\ Ran("do_execute") => last.seen = last.input
        /\ variables_detected[last.actor] =
                detect_vars(OptionsOf(last.actor), OMof(last.actor), {"Actor"})
        /\ get_log_prefix(Cur, last.actor).ret.s = FreshFullName(last.actor)

\* a transformer was reconfigured with an input waiting
C5_Witness ==
    /\ Executed
    /\ last.actor \in Transformers
    /\ last.changed
    /\ Ran("do_execute")
    /\ last.input \in DATA
    /\ last.seen = last.input

\* the variable bound to an option of a was added, updated or removed
BoundVariableMutated(a) ==
    \E n \in DOMAIN opt_var[a] :
        /\ ~IsNone(opt_var[a][n])
        /\ LET k == opt_var[a][n].s
               old == vdata[vstore[a]]
               new == vdata'[vstore[a]]
           IN  \/ (k \in DOMAIN old) # (k \in DOMAIN new)
               \/ (k \in DOMAIN old /\ k \in DOMAIN new /\ old[k] # new[k])

\* C6: whenever a variable bound to an option of a set-up actor is added,
\* updated, removed or cleared in the actor's store, the actor is marked
\* changed, and an execute() that finds the mark reconfigures the actor.
C6_MutationMarksChanged ==
    [][ /\ \A a \in Actors :
            (a \in vlisteners[vstore[a]] /\ BoundVariableMutated(a))
                => variables_changed'[a]
        /\ (last'.op = "execute" /\ last'.changed)
                => \E k \in 1..Len(last'.trace) : last'.trace[k] = <<last'.actor, "setup">>
      ]_vars

\* the same, for the mutations made by set() and remove() only
C6_SetAndRemoveMarkChanged ==
    [][ \A a \in Actors :
            (a \in vlisteners[vstore[a]] /\ BoundVariableMutated(a)
                /\ last'.op # "var_clear")
                => variables_changed'[a] ]_vars

----------------------------------------------------------------------------
(* Claims about the option manager (checked under SpecOM) *)

\* the last call was get(name) on a declared option
GotDeclared == om_ret.op = "get" /\ om_ret.name \in OptionNames(OM_OPTIONS)

BoundAndDefined(n) == ~IsNone(om_var[n]) /\ om_var[n].s \in DOMAIN om_data

\* what the reader of each modelled type makes of a stored string
ReaderResult(cls, v) ==
    CASE cls = "str" -> PyStr(v.s)
      [] cls = "int" -> py_int(v.s)

\* C7: get(name) returns the bound variable's value, converted by the reader
\* of the option's type, when the variable is bound and present in the store;
\* otherwise the literal override if there is one; otherwise the default.
C7_GetPrecedence ==
    GotDeclared =>
        LET n == om_ret.name
            opt == OptionOf(OM_OPTIONS, n)
        IN  IF BoundAndDefined(n)
            THEN om_ret.ret = ReaderResult(opt.value_type, om_data[om_var[n].s])
            ELSE IF n \in DOMAIN om_values THEN om_ret.ret = om_values[n]
            ELSE om_ret.ret = opt.def_value

\* a get on an option that has both an override and a bound, defined variable
C7_Witness ==
    /\ GotDeclared
    /\ BoundAndDefined(om_ret.name)
    /\ om_ret.name \in DOMAIN om_values
    /\ om_ret.ret # om_values[om_ret.name]
    /\ ~IsRaised(om_ret.ret)

\* C8: an option never has both a literal override and a bound variable:
\* set with a padded reference removes the override, set with a literal
\* removes the binding.
C8_OverrideXorVariable ==
    /\ \A n \in OptionNames(OM_OPTIONS) :
            ~(n \in DOMAIN om_values /\ ~IsNone(om_var[n]))
    /\ (om_ret.op = "set" /\ IsNone(om_ret.ret) /\ is_var(om_ret.value))
            => om_ret.name \notin DOMAIN om_values
    /\ (om_ret.op = "set" /\ IsNone(om_ret.ret) /\ ~is_var(om_ret.value))
            => IsNone(om_var[om_ret.name])

\* C9: get(name) is the default while there is neither an override nor a
\* bound and defined variable; once an option was bound and its variable then
\* removed from the store, get(name) is the override set before the binding,
\* or the default if there was none.
C9_DefaultAndFallback ==
    GotDeclared =>
        LET n == om_ret.name
            opt == OptionOf(OM_OPTIONS, n)
        IN  /\ (n \notin DOMAIN om_values /\ ~BoundAndDefined(n))
                    => om_ret.ret = opt.def_value
            /\ (om_hist.phase = "undefined" /\ om_hist.name = n)
                    => om_ret.ret = (IF IsNone(om_hist.ovr) THEN opt.def_value
                                     ELSE om_hist.ovr)

\* a get after: override set, variable bound, variable removed from the store
C9_Witness ==
    /\ GotDeclared
    /\ om_hist.phase = "undefined"
    /\ om_hist.name = om_ret.name
    /\ ~IsNone(om_hist.ovr)
    /\ om_ret.ret = om_hist.ovr

\* the options that declare a bound
Bounded == {n \in OptionNames(OM_OPTIONS) :
                LET opt == OptionOf(OM_OPTIONS, n)
                IN  ~IsNone(opt.lower) \/ ~IsNone(opt.upper)}

OutOfRange(opt, v) ==
    \/ ~IsNone(opt.lower) /\ v.i < opt.lower.i
    \/ ~IsNone(opt.upper) /\ v.i > opt.upper.i

\* C10: set(name, number) outside [lower, upper] raises and leaves the
\* override and the binding of every option as they were; a number inside
\* the bounds, the bounds included, is stored as it is.
C10_RangeChecked ==
    [][ (om_ret'.op = "set" /\ om_ret'.name \in Bounded /\ IsInt(om_ret'.value)) =>
            LET opt == OptionOf(OM_OPTIONS, om_ret'.name) IN
            IF OutOfRange(opt, om_ret'.value)
            THEN /\ IsRaised(om_ret'.ret)
                 /\ om_values' = om_values
                 /\ om_var' = om_var
            ELSE /\ IsNone(om_ret'.ret)
                 /\ om_values'[om_ret'.name] = om_ret'.value ]_vars

\* a rejected set on an option that keeps the override it had
C10_Witness ==
    /\ om_ret.op = "set"
    /\ om_ret.name \in Bounded
    /\ IsInt(om_ret.value)
    /\ OutOfRange(OptionOf(OM_OPTIONS, om_ret.name), om_ret.value)
    /\ IsRaised(om_ret.ret)
    /\ om_ret.name \in DOMAIN om_values
    /\ om_values[om_ret.name] = OptionOf(OM_OPTIONS, om_ret.name).upper

----------------------------------------------------------------------------
(* Assignment of sub-actors                                                *)

\* an assignment call of the host that returned without raising
Assigned ==
    /\ last.op \in {"actors", "manage", "append"}
    /\ ~last.exc

Distinct(names) ==
    \A i, j \in 1..Len(names) : i # j => names[i] # names[j]

\* the names the actors had when the call started are all the literal "A"
AllNamedA == \A k \in 1..Len(last.before) : last.before[k] = <<"A">>

\* an actor whose name comes from a defined variable
NameFromVariable(a) ==
    /\ opt_var[a]["name"] # None
    /\ Variables_has(vdata[vstore[a]], opt_var[a]["name"].s) = PyBool(TRUE)

\* C11: after a list of actors is assigned to an ActorHandler (actors setter,
\* manage, append) the names of all actors in the list are pairwise distinct.
C11_NamesDistinct ==
    Assigned => Distinct(NamesOf(actors("H")))

\* what does hold: lists without an actor whose name comes from a defined
\* variable end up with distinct names, and A, A, A becomes A, A (2), A (3)
C11_LiteralNamesDistinct ==
    (Assigned /\ \A k \in 1..Len(actors("H")) : ~NameFromVariable(actors("H")[k]))
        => /\ Distinct(NamesOf(actors("H")))
           /\ (Len(last.before) = 3 /\ AllNamedA /\ last.op # "append")
                 => NamesOf(actors("H")) =
                        <<<<"A">>, numbered(<<"A">>, 2), numbered(<<"A">>, 3)>>

C11_ThreeAs ==
    /\ Assigned /\ Len(last.before) = 3 /\ AllNamedA
    /\ NamesOf(actors("H")) = <<<<"A">>, numbered(<<"A">>, 2), numbered(<<"A">>, 3)>>

----------------------------------------------------------------------------
(* Reference pools and callable actors                                     *)

\* a pool holds an actor with the name
PoolHas(pool, name) ==
    \E k \in 1..Len(FLOW_ACTORS[pool]) : c_name[FLOW_ACTORS[pool][k]] = name

\* the pools a collected handler makes visible: itself, or its sub-actors
PoolsOf(h) ==
    IF h \in POOLS THEN {h}
    ELSE {FLOW_ACTORS[h][k] : k \in 1..Len(FLOW_ACTORS[h])} \cap POOLS

Searched == c_last.op = "find_callable_actor_recursive"

\* C12: find_callable_actor_recursive searches the collected composites from
\* nearest to farthest and returns the first match: what it returns is in a
\* pool of a collected composite, no nearer collected composite has a pool
\* with the name, with X in the pool PB of I and in the pool PA of F a search
\* from inside I answers the actor of PB, and it answers None if no pool of a
\* collected composite holds the name.
C12_NearestPoolWins ==
    Searched =>
        /\ c_last.found # "none" =>
              \E k \in 1..Len(c_last.handlers) :
                 /\ \E p \in PoolsOf(c_last.handlers[k]) :
                        /\ FLOW_PARENT[c_last.found] = p
                        /\ c_name[c_last.found] = c_last.name
                 /\ \A j \in 1..(k - 1) : \A p \in PoolsOf(c_last.handlers[j]) :
                        ~PoolHas(p, c_last.name)
        /\ (/\ FLOW_PARENT[c_last.actor] = "I"
            /\ c_info["I"]
            /\ PoolHas("PB", c_last.name)
            /\ PoolHas("PA", c_last.name))
              => FLOW_PARENT[c_last.found] = "PB"
        /\ (\A k \in 1..Len(c_last.handlers) : \A p \in PoolsOf(c_last.handlers[k]) :
                ~PoolHas(p, c_last.name))
              => c_last.found = "none"

C12_Witness ==
    /\ Searched /\ c_last.actor = "R" /\ c_last.name = <<"X">>
    /\ PoolHas("PA", <<"X">>) /\ PoolHas("PB", <<"X">>)
    /\ c_last.handlers = <<"I", "F">>
    /\ c_last.found = "b1"

\* C13: after the variable bound to callable_name changed and one execute()
\* completed, the cached callable actor is the one the new callable_name
\* resolves to.
C13_CacheFollowsReconfiguration ==
    (c_last.op = "execute" /\ c_last.changed) => c_ref.callable_actor = Resolved

optional == ref_get(c_om, c_data, "optional").b

\* C14: an actor whose callable_name resolves to no actor fails the setup()
\* that resolves (the execute(), when setup() left the resolution to it)
\* unless it is optional; an optional one succeeds and its execute() runs no
\* callable actor.
C14_UnresolvedFailsUnlessOptional ==
    Resolved = "none" =>
        /\ (c_last.op = "setup" /\ c_last.resolving) =>
                c_last.ret = (IF optional THEN None ELSE NotFound)
        /\ c_last.op = "execute" =>
                /\ c_last.ret = (IF optional THEN None ELSE NotFound)
                /\ c_last.ran = "none"

\* what does hold: the call that does the resolution reports the missing actor
C14_ResolvingCallFails ==
    (Resolved = "none" /\ c_last.op \in {"setup", "execute"} /\ c_last.resolving) =>
        /\ c_last.ret = (IF optional THEN None ELSE NotFound)
        /\ c_last.ran = "none"

\* the position (from 1) of a sub-actor in its handler
Pos(child) ==
    CHOOSE i \in 1..Len(FLOW_ACTORS[FLOW_PARENT[child]]) :
        FLOW_ACTORS[FLOW_PARENT[child]][i] = child

RECURSIVE AncestorsOf(_)
AncestorsOf(a) ==
    IF FLOW_PARENT[a] = "none" THEN <<>>
    ELSE <<FLOW_PARENT[a]>> \o AncestorsOf(FLOW_PARENT[a])

Range(seq) == {seq[k] : k \in 1..Len(seq)}

\* the handlers that stand before the branch b in its parent
EarlierSiblings(b) ==
    {FLOW_ACTORS[FLOW_PARENT[b]][i] : i \in 1..(Pos(b) - 1)} \cap FLOW_HANDLERS

\* the current branch at every level: the actor and its ancestors below the root
Branches(a) == {b \in {a} \cup Range(AncestorsOf(a)) : FLOW_PARENT[b] # "none"}

Qualifies(h) == c_last.must => c_info[h]

ExpectedHandlers ==
    {h \in Range(AncestorsOf(c_last.actor)) : Qualifies(h)}
    \cup (IF c_last.incl
          THEN {h \in UNION {EarlierSiblings(b) : b \in Branches(c_last.actor)} :
                    Qualifies(h)}
          ELSE {})

NearestFirst(seq, order) ==
    \A i, j \in 1..Len(order) :
        (i < j /\ order[i] \in Range(seq) /\ order[j] \in Range(seq)) =>
            \A m, n \in 1..Len(seq) : (seq[m] = order[i] /\ seq[n] = order[j]) => m < n

Collected == c_last.op = "find_actor_handlers"

\* C15: find_actor_handlers answers, ordered from the nearest level to the
\* root, exactly the handlers among the ancestors of the actor (never the
\* actor), only those that allow standalones if must_allow_standalones is
\* set, plus, if include_same_level is set, the qualifying handlers that
\* stand strictly before the current branch at each level.
C15_HandlersCollected ==
    Collected =>
        /\ Range(c_last.handlers) = ExpectedHandlers
        /\ Distinct(c_last.handlers)
        /\ NearestFirst(c_last.handlers, AncestorsOf(c_last.actor))
        /\ c_last.actor \notin Range(c_last.handlers)

\* what does hold: the same, in a flow whose sub-actors have distinct names
\* in every handler
UniqueSiblingNames ==
    \A h \in FLOW_HANDLERS : Distinct([k \in 1..Len(FLOW_ACTORS[h]) |-> c_name[FLOW_ACTORS[h][k]]])

C15_WithUniqueSiblingNames ==
    (Collected /\ UniqueSiblingNames) =>
        /\ Range(c_last.handlers) = ExpectedHandlers
        /\ Distinct(c_last.handlers)
        /\ NearestFirst(c_last.handlers, AncestorsOf(c_last.actor))
        /\ c_last.actor \notin Range(c_last.handlers)

----------------------------------------------------------------------------
(* The variable store and its listeners                                    *)

\* the step is a call of op that returned
Returned(op) == s_last'.op = op /\ ~IsRaised(s_last'.ret)

\* every registered listener received exactly the event, once, and nobody else
DeliveredOnce(event) ==
    \A l \in LISTENERS :
        s_events'[l] = IF l \in s_listeners THEN Append(s_events[l], event)
                       ELSE s_events[l]

\* C16: Variables.set(key, value) notifies every registered listener exactly
\* once before it returns, with 'added' and the key if the key was absent and
\* with 'updated' and the key if it was present; so set(k, v1), set(k, v2) on
\* a store without k delivers added, then updated.
C16_SetNotifiesOnce ==
    [][Returned("set") =>
          /\ DeliveredOnce(VariableChangeEvent(
                IF s_last'.key \in DOMAIN s_data THEN "updated" ELSE "added",
                PyStr(s_last'.key)))
          /\ s_last'.key \in DOMAIN s_data']_vars

C16_Witness ==
    /\ s_last.op = "set" /\ s_last.key = <<"k">>
    /\ s_listeners = LISTENERS
    /\ s_data[<<"k">>] = PyStr(<<"2">>)
    /\ \A l \in LISTENERS :
          s_events[l] = <<VariableChangeEvent("added", PyStr(<<"k">>)),
                          VariableChangeEvent("updated", PyStr(<<"k">>))>>

\* C17: Variables.remove(key) sends 'deleted' with the key if and only if the
\* key was present (no event and no change otherwise), and Variables.clear()
\* always sends exactly one 'cleared' event without a key, also on an empty
\* store.
C17_RemoveAndClearEvents ==
    [][/\ Returned("remove") =>
            IF s_last'.key \in DOMAIN s_data
            THEN /\ DeliveredOnce(VariableChangeEvent("deleted", PyStr(s_last'.key)))
                 /\ s_last'.key \notin DOMAIN s_data'
            ELSE s_events' = s_events /\ s_data' = s_data
       /\ Returned("clear") =>
            /\ DeliveredOnce(VariableChangeEvent("cleared", None))
            /\ s_data' = EmptyMap]_vars

C17_Witness ==
    /\ s_last.op = "clear"
    /\ "L1" \in s_listeners
    /\ s_events["L1"] = <<VariableChangeEvent("deleted", PyStr(<<"k">>)),
                          VariableChangeEvent("cleared", None)>>

\* a key the spec does not admit: empty, or with a character outside
\* [A-Za-z0-9_-]
Inadmissible(key) == key = <<>> \/ ~is_valid_name(key)

\* C18: has, get, set and remove reject a key that is empty or has a
\* character outside [A-Za-z0-9_-] by raising, and leave the entries as they
\* are: no such key is ever stored.
C18_InvalidKeysRejected ==
    /\ (s_last.op \in {"has", "get", "set", "remove"} /\ Inadmissible(s_last.key))
            => IsRaised(s_last.ret)
    /\ \A key \in DOMAIN s_data : ~Inadmissible(key)

\* what does hold: a key with a character outside VALID_CHARS is rejected
\* and changes nothing
C18_BadCharactersRejected ==
    [][(s_last'.op \in {"has", "get", "set", "remove"} /\ ~is_valid_name(s_last'.key))
            => /\ IsRaised(s_last'.ret)
               /\ s_data' = s_data
               /\ s_events' = s_events]_vars

----------------------------------------------------------------------------
(* Expansion of references                                                 *)

\* the string form of a stored value
StringForm(v) == IF IsStr(v) THEN v.s ELSE py_str(v.i)

\* the position (from 1) of the first "}" of s, 0 if there is none
RECURSIVE FirstEnd(_, _)
FirstEnd(s, i) ==
    IF i > Len(s) THEN 0 ELSE IF s[i] = "}" THEN i ELSE FirstEnd(s, i + 1)

\* the number of references @{...} in s
RECURSIVE RefCount(_)
RefCount(s) ==
    IF s = <<>> THEN 0
    ELSE IF startswith(s, VAR_START) /\ FirstEnd(s, 3) > 0
         THEN 1 + RefCount(SubSeq(s, FirstEnd(s, 3) + 1, Len(s)))
         ELSE RefCount(Tail(s))

\* s with every reference replaced by the string form of the variable, or by
\* nothing if the variable is undefined, and all other text kept
RECURSIVE Substituted(_)
Substituted(s) ==
    IF s = <<>> THEN <<>>
    ELSE IF startswith(s, VAR_START) /\ FirstEnd(s, 3) > 0
         THEN (IF SubSeq(s, 3, FirstEnd(s, 3) - 1) \in DOMAIN e_data
               THEN StringForm(e_data[SubSeq(s, 3, FirstEnd(s, 3) - 1)])
               ELSE <<>>)
              \o Substituted(SubSeq(s, FirstEnd(s, 3) + 1, Len(s)))
         ELSE <<Head(s)>> \o Substituted(Tail(s))

\* C19: expand terminates for every input and store, self-referential
\* values and malformed references included; the number of passes is bounded
\* by the number of references initially in s (one more pass, which finds
\* nothing left, is allowed for).
C19_PassesBounded ==
    e_passes <= RefCount(e_s) + 1

\* what does hold: a store whose values hold no reference needs at most two
\* passes, and the call returns or raises
NoReferenceStored ==
    \A key \in DOMAIN e_data :
        IsStr(e_data[key]) => ~contains(e_data[key].s, VAR_START)

C19_FlatStoreTerminates ==
    NoReferenceStored => (e_passes <= 2 /\ (e_passes = 2 => e_pc # "loop"))

\* C20: expand replaces every reference @{name} by the string form of the
\* variable's value, or by nothing if name is undefined, and keeps the text
\* outside references: '@{a}-@{b}' with a=x, b=y gives 'x-y', '@{missing}'
\* on an empty store gives ''.  (Where the outcome of the replacement holds
\* references again, the spec has expand go on; the statement is about the
\* calls whose replacement leaves none.)
C20_ReferencesReplaced ==
    e_pc = "returned" =>
        /\ ~contains(Substituted(e_s), VAR_START) => e_result = Substituted(e_s)
        /\ (/\ e_s = Ref(<<"a">>) \o <<"-">> \o Ref(<<"b">>)
            /\ <<"a">> \in DOMAIN e_data /\ e_data[<<"a">>] = PyStr(<<"x">>)
            /\ <<"b">> \in DOMAIN e_data /\ e_data[<<"b">>] = PyStr(<<"y">>))
              => e_result = <<"x", "-", "y">>
        /\ (e_s = Ref(<<"m", "i", "s", "s", "i", "n", "g">>) /\ e_data = EmptyMap)
              => e_result = <<>>

C20_Witness ==
    /\ e_pc = "returned"
    /\ e_s = Ref(<<"a">>) \o <<"-">> \o Ref(<<"b">>)
    /\ <<"a">> \in DOMAIN e_data /\ e_data[<<"a">>] = PyStr(<<"x">>)
    /\ <<"b">> \in DOMAIN e_data /\ e_data[<<"b">>] = PyStr(<<"y">>)
    /\ e_result = <<"x", "-", "y">>

----------------------------------------------------------------------------
(* Storage next to Variables (SpecTwin)                                    *)

\* event type and key of a delivered event, whichever class it is of
TypeAndKey(d) ==
    <<d.event.event_type,
      IF "var" \in DOMAIN d.event THEN d.event.var ELSE d.event.key>>

Emitted(sent) ==
    [l \in DOMAIN sent |-> [i \in DOMAIN sent[l] |-> TypeAndKey(sent[l][i])]]

\* a result with the text of an error left out: Storage and Variables word
\* their messages differently
Result(ret) == IF IsRaised(ret) THEN Raised("an error") ELSE ret

\* C21: after the same sequence of add_listener, remove_listener, set, get,
\* has, remove, clear and merge calls a Storage and a Variables object hold
\* the same entries, answered the last call with the same result or both with
\* an error, and sent the same event types and keys in the same order.
C21_StorageMatchesVariables ==
    /\ ts_data = tv_data
    /\ Result(ts_ret) = Result(tv_ret)
    /\ Emitted(ts_sent) = Emitted(tv_sent)

\* C21 for every call but remove_listener
C21_MatchesButRemoveListener ==
    t_call.op # "remove_listener" => C21_StorageMatchesVariables

\* a merge of two entries reached a listener of both objects
C21_MergeDelivered ==
    /\ t_call.op = "merge" /\ Len(ts_sent["B"]) = 2 /\ Len(tv_sent["B"]) = 2

\* the last call changed the entries of the Storage object: a set, a merge
\* that set something, a clear, or a remove of a key that was there
Mutation ==
    \/ t_call.op = "set" /\ is_valid_name(t_call.arg)
    \/ t_call.op = "clear"
    \/ t_call.op = "merge" /\ t_call.arg # <<>>

\* C22: when a call that mutates a Storage object is over, every registered
\* listener had its storage_changed callback invoked with the event of the
\* mutation.
C22_StorageChangedInvoked ==
    Mutation =>
        \A l \in ts_listeners :
            /\ ts_sent[l] # <<>>
            /\ \A i \in DOMAIN ts_sent[l] : ts_sent[l][i].callback = "storage_changed"

\* what does hold: no call ever invokes storage_changed
C22_NeverStorageChanged ==
    \A l \in LISTENER_OBJECTS :
        \A i \in DOMAIN ts_sent[l] : ts_sent[l][i].callback # "storage_changed"

----------------------------------------------------------------------------
(* The life cycle of handlers (Spec, SpecLife)                             *)

\* C23: stop_execution() on any actor, in any state after construction,
\* returns without raising.
C23_StopNeverRaises ==
    last.op = "stop_execution" => ~last.exc /\ ~IsRaised(last.ret)

\* what does hold: stop_execution() raises only on a handler that has no
\* _director attribute, or that manages such a handler
C23_RaisesOnlyWithoutDirector ==
    last.op = "stop_execution" /\ last.exc =>
        \E h \in Handlers : ~director[h].attr

----------------------------------------------------------------------------
(* Assigning sub-actors, continued (SpecAssign)                            *)

\* the step is a call of the setter, manage or append that raised
RejectedAssignment(ops) == last'.op \in ops /\ last'.exc

\* C25: a call of the actors setter, manage or append that the shape check
\* rejects raises and leaves the handler's child list as it was.
C25_RejectedLeavesList ==
    [][RejectedAssignment({"actors", "manage", "append"}) =>
            actors("H")' = actors("H")]_vars

\* what does hold: the setter and manage, given a list of the host's, leave
\* the child list alone when they raise
C25_SetterLeavesList ==
    [][RejectedAssignment({"actors", "manage"}) => actors("H")' = actors("H")]_vars

\* the last call handed a list to the handler: the setter, manage or append,
\* whether it returned or raised
ListHanded == last.op \in {"actors", "manage", "append"}

----------------------------------------------------------------------------
(* Set-up and wrap-up of handlers (SpecLife)                               *)

\* the last call was setup() of a handler
HandlerSetUp == last.op = "setup" /\ last.actor \in Handlers

\* the actors whose checks fail in the last setup
FailingNow == {last.arg[k] : k \in 1..Len(last.arg)}

RECURSIVE Fails(_)
\* setup() of a fails: its own check does, or setup() of one of its sub-actors
Fails(a) ==
    \/ a \in FailingNow
    \/ a \in Handlers /\ \E k \in 1..Len(actors(a)) : Fails(actors(a)[k])

\* the position of the first sub-actor of h whose setup() fails, 0 if none
FirstFailing(h) ==
    IF \E k \in 1..Len(actors(h)) : Fails(actors(h)[k])
    THEN CHOOSE k \in 1..Len(actors(h)) :
            /\ Fails(actors(h)[k])
            /\ \A j \in 1..(k - 1) : ~Fails(actors(h)[j])
    ELSE 0

RECURSIVE MessageOf(_)
\* what a failing setup() of a returns
MessageOf(a) ==
    IF a \in FailingNow
    THEN IF a \in Handlers THEN PyStr(<<"rejected">>) ELSE PyStr(<<"setup failed">>)
    ELSE MessageOf(actors(a)[FirstFailing(a)])

\* the sub-actors of h whose setup() ran during the last call, in order
KidsSetUp(h) ==
    LET ran == SelectSeq(last.trace, LAMBDA e :
                   e[2] = "setup" /\ \E k \in 1..Len(actors(h)) : actors(h)[k] = e[1])
    IN  [k \in 1..Len(ran) |-> ran[k][1]]

\* the sub-actors of h that setup() of h has to set up
KidsExpected(h) ==
    IF h \in FailingNow THEN <<>>
    ELSE IF FirstFailing(h) = 0 THEN actors(h)
    ELSE SubSeq(actors(h), 1, FirstFailing(h))

\* setup() of the actor of the last call fails
SetupFails == Fails(last.actor)

SetupAsSpecified ==
    /\ KidsSetUp(last.actor) = KidsExpected(last.actor)
    /\ last.ret = IF Fails(last.actor) THEN MessageOf(last.actor) ELSE None

\* C24: setup() of a handler runs the shape check, then setup() of the
\* sub-actors in list order up to the first that fails; it returns that
\* failure and leaves the director as it was, or, if nothing failed, returns
\* None with a new director bound to the handler.
C24_HandlerSetupStopsAtFailure ==
    HandlerSetUp =>
        /\ SetupAsSpecified
        /\ director[last.actor] =
              IF SetupFails THEN last.before[1] ELSE NewDirector(last.actor)

\* setup() of the root with the first sub-actor failing, after a clean_up:
\* the second sub-actor was not set up and the director is still the old one
C24_Witness ==
    /\ HandlerSetUp /\ last.actor = "H" /\ last.arg = <<"S">>
    /\ KidsSetUp("H") = <<"S">>
    /\ last.ret = PyStr(<<"setup failed">>)
    /\ director["H"].attr /\ director["H"].owner = "none"

\* the actor of the last call and every actor below it
Subtree == {last.actor} \cup DescendantsOf(last.actor)

Listening(a) == \E s \in Actors : a \in vlisteners[s]

\* C27: after wrap_up() on an actor, neither the actor nor, for a handler,
\* any actor below it is a listener of a variable store.
C27_WrapUpUnsubscribes ==
    last.op = "wrap_up" => \A a \in Subtree : ~Listening(a)

\* what does hold: a wrap_up() that returned has unsubscribed the whole subtree
C27_ReturnedWrapUpUnsubscribes ==
    last.op = "wrap_up" /\ ~last.exc => \A a \in Subtree : ~Listening(a)

\* the root was set up and wrapped up: nobody listens any more
C27_AllUnsubscribed ==
    /\ last.op = "wrap_up" /\ last.actor = "H" /\ ~last.exc
    /\ \A h \in Handlers : director[h].attr
    /\ \A a \in Actors : ~Listening(a)

\* C28: after setup() of a handler that returned None every actor below the
\* handler uses the Variables object of the handler.
C28_SubtreeSharesStore ==
    HandlerSetUp /\ IsNone(last.ret) =>
        \A a \in DescendantsOf(last.actor) : vstore[a] = vstore[last.actor]

\* what does hold: update_variables hands the store of the call to every
\* actor below the handler
C28_UpdateVariablesShares ==
    last.op = "update_variables" =>
        \A a \in DescendantsOf(last.actor) : vstore[a] = vstore[last.actor]

----------------------------------------------------------------------------
(* Detected variables (SpecDetect)                                         *)

\* the value the option holds: the stored value or else the default
HeldValue(o, option) ==
    IF option.name \in DOMAIN dt_values[o] THEN dt_values[o][option.name]
    ELSE option.def_value

\* the stored value of the option, if there is one
StoredValue(o, option) ==
    IF option.name \in DOMAIN dt_values[o] THEN dt_values[o][option.name] ELSE None

\* the option handlers in a value: the handler itself or the elements of a list
HandlersIn(option, v) ==
    IF IsNone(v) THEN {}
    ELSE IF issubclass(option.value_type, "AbstractOptionHandler") THEN {v.obj}
    ELSE IF ~IsNone(option.base_type)
            /\ issubclass(option.base_type.cls, "AbstractOptionHandler")
         THEN {v.l[k] : k \in 1..Len(v.l)}
    ELSE {}

\* the options of o that skip does not exclude
Considered(o, skip) ==
    {DETECT_OPTIONS(o)[k] : k \in 1..Len(DETECT_OPTIONS(o))} \
        {opt \in {DETECT_OPTIONS(o)[k] : k \in 1..Len(DETECT_OPTIONS(o))} :
            skipped(opt, skip)}

RECURSIVE BoundBelow(_, _, _)
\* the variables bound to the considered options of o and, recursively, of
\* the handlers those options hold (held) or have stored (~held)
BoundBelow(o, skip, held) ==
    {dt_var[o][opt.name].s : opt \in {p \in Considered(o, skip) : ~IsNone(dt_var[o][p.name])}}
    \cup UNION {BoundBelow(n, skip, held) :
                   n \in UNION {HandlersIn(opt, IF held THEN HeldValue(o, opt)
                                                 ELSE StoredValue(o, opt)) :
                                   opt \in Considered(o, skip)}}

Detected == {dt_last.ret.l[k] : k \in 1..Len(dt_last.ret.l)}

\* C29: detect_vars(skip) returns exactly the variables bound to the
\* manager's own options and, recursively, to the options of every option
\* handler that one of its options holds, options whose value type or
\* element type is in skip left out.
C29_DetectVarsComplete ==
    dt_last.op = "detect_vars" => Detected = BoundBelow("M", dt_last.skip, TRUE)

\* what does hold: the same with the option handlers of stored values only,
\* a default value is not looked into
C29_DetectVarsOfStoredValues ==
    dt_last.op = "detect_vars" => Detected = BoundBelow("M", dt_last.skip, FALSE)

\* a call that found variables of M, of a stored condition and of an actor
C29_NestedDetected ==
    /\ dt_last.op = "detect_vars"
    /\ {<<"m">>, <<"n">>, <<"a">>} \subseteq Detected

----------------------------------------------------------------------------
(* Skipped sub-actors (SpecSkip)                                           *)

\* the positions of the sub-actors of h whose skip option is false
Active(h) == {k \in 1..Len(actors(h)) : ~Actor_get(actors(h)[k], "skip").b}

\* the sub-actor at the position pick chooses among the active ones
ActiveAt(h, k) == IF Active(h) = {} THEN None ELSE Obj(actors(h)[k])

Smallest(S) == CHOOSE k \in S \cup {0} : S # {} => (k \in S /\ \A j \in S : k <= j)

Largest(S) == CHOOSE k \in S \cup {0} : S # {} => (k \in S /\ \A j \in S : k >= j)

\* C30: first_active and last_active are the first and the last sub-actor
\* whose skip option is false, None if there is none; an assignment makes
\* the names of all sub-actors distinct, skipped ones included; and setup()
\* of the handler sets up every sub-actor, skipped ones included.
C30_SkipSemantics ==
    /\ last.op = "first_active" => last.ret = ActiveAt("H", Smallest(Active("H")))
    /\ last.op = "last_active" => last.ret = ActiveAt("H", Largest(Active("H")))
    /\ Assigned => Distinct(NamesOf(actors("H")))
    /\ HandlerSetUp /\ IsNone(last.ret) => KidsSetUp("H") = actors("H")

\* first_active of a list of three whose first sub-actor is skipped
C30_Witness ==
    /\ last.op = "first_active" /\ Len(actors("H")) = 3
    /\ is_skipped(actors("H")[1])
    /\ last.ret = Obj(actors("H")[2])

\* a skipped sub-actor named like an earlier one was renamed
C30_SkippedRenamed ==
    /\ Assigned /\ Len(actors("H")) = 3
    /\ is_skipped(actors("H")[2])
    /\ NamesOf(actors("H"))[2] = numbered(<<"A">>, 2)

\* setup() of the handler set up a skipped sub-actor
C30_SkippedSetUp ==
    /\ HandlerSetUp /\ IsNone(last.ret) /\ Len(actors("H")) = 3
    /\ is_skipped(actors("H")[3])
    /\ KidsSetUp("H") = actors("H")

----------------------------------------------------------------------------
(* The dictionary form of option handlers *)

\* the handler the om_ variables describe, with the decoded options of y
\* and its own variable store (as after y.update_variables(x.variables))
Decoded(y) == [values |-> y.values, var |-> y.var]

EffectiveSame(y) ==
    \A n \in OptionNames(ENC_OPTIONS) :
        OptionManager_get(ENC_OPTIONS, Decoded(y), om_data, n)
            = OptionManager_get(ENC_OPTIONS, OMcur, om_data, n)

\* C31: dict_to_optionhandler(optionhandler_to_dict(x)) is a handler of the
\* class of x with the variable bindings of x and the effective option
\* values of x, and encoding it again yields the same dictionary.
C31_RoundTrip ==
    om_ret.op = "round_trip" =>
        /\ ~IsRaised(om_ret.ret)
        /\ om_ret.ret.cls = EncSelf.cls
        /\ om_ret.ret.var = om_var
        /\ EffectiveSame(om_ret.ret)
        /\ om_ret.again = om_ret.value

\* what does hold: the class, the bindings and the dictionary are kept
C31_ClassBindingsDictionaryKept ==
    om_ret.op = "round_trip" =>
        /\ ~IsRaised(om_ret.ret)
        /\ om_ret.ret.cls = EncSelf.cls
        /\ om_ret.ret.var = om_var
        /\ om_ret.again = om_ret.value

\* and the effective values are kept where no option has both a literal
\* override and a variable, in x and in its sub-actors
OverrideAndVariable(values, var) ==
    \E n \in DOMAIN values : ~IsNone(var[n])

NoneShadowed ==
    /\ ~OverrideAndVariable(om_values, om_var)
    /\ "actors" \in DOMAIN om_values =>
          \A k \in 1..Len(om_values["actors"].l) :
              ~OverrideAndVariable(om_values["actors"].l[k].values,
                                   om_values["actors"].l[k].var)

C31_EffectiveKeptUnlessShadowed ==
    (om_ret.op = "round_trip" /\ NoneShadowed) => EffectiveSame(om_ret.ret)

\* a round trip of a handler with a bound option, an override of another
\* option and sub-actors
C31_RoundTripOfConfigured ==
    /\ om_ret.op = "round_trip"
    /\ NoneShadowed
    /\ ~IsNone(om_var["name"])
    /\ "debug" \in DOMAIN om_values
    /\ "actors" \in DOMAIN om_values /\ Len(om_values["actors"].l) > 0

\* the value get() returns when no variable is bound
Literal(n) ==
    IF n \in DOMAIN om_values THEN om_values[n] ELSE OptionOf(ENC_OPTIONS, n).def_value

\* C32: to_dict(skip_default=True) has no item for an option without bound
\* variable whose value equals its declared default, and for every option
\* with a bound variable the item @{var}.
C32_SkipsDefaultsEmitsVariables ==
    (om_ret.op = "to_dict" /\ om_ret.value.b) =>
        \A n \in OptionNames(ENC_OPTIONS) :
            /\ ~IsNone(om_var[n]) =>
                  /\ dict_has(om_ret.ret.d, n)
                  /\ dict_get(om_ret.ret.d, n) = PyStr(pad_var(om_var[n].s))
            /\ (IsNone(om_var[n]) /\ Literal(n) = OptionOf(ENC_OPTIONS, n).def_value)
                  => ~dict_has(om_ret.ret.d, n)

\* what does hold: the same for the options that are not lists of option
\* handlers; "actors" without variable always has an item
C32_ExceptHandlerLists ==
    (om_ret.op = "to_dict" /\ om_ret.value.b) =>
        \A n \in OptionNames(ENC_OPTIONS) :
            /\ ~IsNone(om_var[n]) =>
                  /\ dict_has(om_ret.ret.d, n)
                  /\ dict_get(om_ret.ret.d, n) = PyStr(pad_var(om_var[n].s))
            /\ (IsNone(om_var[n]) /\ Literal(n) = OptionOf(ENC_OPTIONS, n).def_value)
                  => (dict_has(om_ret.ret.d, n) <=> n = "actors")

\* a to_dict of a handler with a variable on an overridden option and with
\* an option set to its default
C32_EncodedBoundAndDefault ==
    /\ om_ret.op = "to_dict" /\ om_ret.value.b
    /\ ~IsNone(om_var["name"]) /\ "name" \in DOMAIN om_values
    /\ ~dict_has(om_ret.ret.d, "debug")

Declared(e) == e[1] \in OptionNames(ENC_OPTIONS)

\* the manager and the result are those of r
SameOutcome(r) == r.om = OMcur /\ r.ret = om_ret.ret

\* C33: from_dict(d) does what from_dict does for d without the keys that
\* are not declared options: such a key raises nothing, the other keys are
\* applied, and afterwards there is no option and no stored value for it.
C33_UnknownKeysSkipped ==
    om_ret.op = "from_dict" =>
        /\ SameOutcome(OptionManager_from_dict(ENC_OPTIONS, om_ret.before, om_data,
                                               SelectSeq(om_ret.value.d, Declared)))
        /\ DOMAIN om_values \subseteq OptionNames(ENC_OPTIONS)
        /\ DOMAIN om_var = OptionNames(ENC_OPTIONS)

\* a from_dict whose first key is unknown and whose second key was applied
C33_Witness ==
    /\ om_ret.op = "from_dict"
    /\ Len(om_ret.value.d) = 2
    /\ om_ret.value.d[1][1] = "bogus"
    /\ om_ret.value.d[2] = <<"name", PyStr(<<"x">>)>>
    /\ IsNone(om_ret.ret)
    /\ "name" \notin DOMAIN om_ret.before.values
    /\ om_values["name"] = PyStr(<<"x">>)

----------------------------------------------------------------------------
(* The sequential director (SpecSeq)                                       *)

Doubled(items) == [k \in 1..Len(items) |-> 2 * items[k]]

\* C34: one execution of [source emitting 1, 2, 3; transformer doubling its
\* input; sink collecting its input] under the sequential director leaves
\* the sink with 2, 4, 6 in that order and the director reports no failure
\* (and so for every sequence the source emits).
C34_SinkCollectsDoubles ==
    q_pc = "done" => (q_collected = Doubled(q_items) /\ IsNone(q_ret))

\* the execution of the claim has ended
C34_Witness ==
    /\ q_pc = "done"
    /\ q_items = <<1, 2, 3>>
    /\ q_collected = <<2, 4, 6>>
    /\ IsNone(q_ret)

----------------------------------------------------------------------------
(* The registry of string readers (SpecReaders)                            *)

Registered == {r_readers[k] : k \in 1..Len(r_readers)}

HandledBy(cls) == {reader \in Registered : handles(reader, cls)}

\* C40: get_string_reader(cls) returns a reader that handles cls whenever
\* such a reader is registered at the time of the call, whether or not cls
\* was looked up before that reader was registered.
C40_RegisteredReaderFound ==
    (r_last.op = "get" /\ HandledBy(r_last.arg) # {}) => r_last.ret \in HandledBy(r_last.arg)

\* what does hold: the same unless an earlier lookup found no reader for cls
C40_FoundUnlessMissedBefore ==
    (r_last.op = "get" /\ HandledBy(r_last.arg) # {} /\ ~r_last.missed)
        => r_last.ret \in HandledBy(r_last.arg)

\* a lookup of a class whose only reader was registered after the module's
\* own, with no lookup before
C40_LateReaderFound ==
    /\ r_last.op = "get" /\ r_last.arg = "Actor" /\ ~r_last.missed
    /\ r_last.ret = "OptionHandlerStringReader"

----------------------------------------------------------------------------
(* Stopping and reconfiguring, continued (Spec)                            *)

\* the handler H is set up, and it, its director and every actor below it
\* report is_stopped
AllStopped ==
    /\ director["H"].attr
    /\ stopped["H"]
    /\ director["H"].stopped
    /\ \A a \in DescendantsOf("H") : stopped[a]

\* C35: once stop_execution() was called on a set-up handler, the handler,
\* its director and every actor below it report is_stopped until the host
\* calls setup() again, whatever execute() calls and variable changes happen
\* in between.
C35_StoppedUntilSetup ==
    [][(AllStopped /\ last'.op # "setup") => AllStopped']_vars

\* the step is an execute() of a or of a handler above a that re-runs setup()
ReconfiguredBy(a) ==
    /\ last'.op = "execute"
    /\ variables_changed[last'.actor]
    /\ a \in {last'.actor} \cup DescendantsOf(last'.actor)

\* what does hold: an actor's own flag stays set over every call but the
\* host's setup() and an execute() that re-runs setup() for it
C35_ActorFlagKept ==
    [][\A a \in Actors :
          (stopped[a] /\ last'.op # "setup" /\ ~ReconfiguredBy(a)) => stopped'[a]]_vars

\* the flags after stop_execution() on the set-up handler
C35_StoppedHandler ==
    last.op = "stop_execution" /\ last.actor = "H" /\ AllStopped

\* the setup() of a reports a failure when the checks of the actors in F fail
SetupFailure(a, F) == F \cap ({a} \cup DescendantsOf(a)) # {}

\* C36: an execute() whose reconfiguration re-runs a setup() that returns a
\* failure returns a failure, and _do_execute is not run.
C36_FailedReconfigurationEndsExecute ==
    (last.op = "execute" /\ last.changed /\ SetupFailure(last.actor, last.arg)) =>
        /\ ~IsNone(last.ret)
        /\ last.outcome.do = "none"

\* what does hold: without a failing setup(), and with one, _do_execute runs
\* whenever the subclass's own _pre_execute returned None
C36_DoExecuteFollowsPreExecute ==
    last.op = "execute" => (last.outcome.do # "none" <=> last.outcome.pre = "ok")

\* an execute() that ran _do_execute after its reconfiguration had failed
C36_RanHalfConfigured ==
    /\ last.op = "execute" /\ last.changed /\ SetupFailure(last.actor, last.arg)
    /\ last.outcome.do = "ok"
    /\ IsNone(last.ret)

----------------------------------------------------------------------------
(* Bounds and variable names of bound options (SpecBind)                   *)

InBounds(opt, v) ==
    /\ IsNone(opt.lower) \/ NumOf(v) >= NumOf(opt.lower)
    /\ IsNone(opt.upper) \/ NumOf(v) <= NumOf(opt.upper)

\* get(name) returned a number for an option declared with bounds
GotBounded ==
    /\ om_ret.op = "get"
    /\ om_ret.name \in Bounded
    /\ IsInt(om_ret.ret)

\* C37: the value get(name) returns for an option declared with numeric
\* bounds lies within [lower, upper], also when it comes from a bound
\* variable that was set or changed after the binding.
C37_GetWithinBounds ==
    GotBounded => InBounds(OptionOf(OM_OPTIONS, om_ret.name), om_ret.ret)

\* what does hold: the value is within the bounds unless it is the content
\* of the bound variable
C37_LiteralWithinBounds ==
    (GotBounded /\ ~BoundAndDefined(om_ret.name))
        => InBounds(OptionOf(OM_OPTIONS, om_ret.name), om_ret.ret)

\* a get of the numeric option that returned the content of its variable
C37_GotVariableValue ==
    /\ GotBounded /\ BoundAndDefined(om_ret.name)
    /\ "num" \in DOMAIN om_values
    /\ om_ret.ret = PyInt(2) /\ om_values["num"] # PyInt(2)

\* C38: every variable name bound to an option is valid, however it was
\* bound, so that get(name) does not raise because of the binding.
C38_BoundNamesValid ==
    /\ \A n \in OptionNames(OM_OPTIONS) :
          ~IsNone(om_var[n]) => is_valid_name(om_var[n].s)
    /\ om_ret.op = "get" => ~IsRaised(om_ret.ret)

\* what does hold: get raises only for an option bound to a name that is
\* not valid
C38_GetRaisesOnInvalidNameOnly ==
    (om_ret.op = "get" /\ IsRaised(om_ret.ret)) =>
        /\ ~IsNone(om_var[om_ret.name])
        /\ ~is_valid_name(om_var[om_ret.name].s)

\* set_var refused the name that set accepts
C38_SetVarRaised ==
    /\ om_ret.op = "set_var" /\ om_ret.ret = Raised("Invalid variable name")
    /\ \A n \in OptionNames(OM_OPTIONS) : IsNone(om_var[n])

----------------------------------------------------------------------------
(* The default of "actors" (SpecMutable)                                   *)

\* C39: assignments, append, remove and clear leave the declared default of
\* "actors" the empty list, so that after OptionManager.reset() the handler
\* has no sub-actors.
C39_DefaultStaysEmpty ==
    /\ def_actors["H"].l = <<>>
    /\ last.op = "reset" => actors("H") = <<>>

\* what does hold: only append and remove change the default list
C39_DefaultChangedByAppendOrRemove ==
    [][def_actors'["H"].l # def_actors["H"].l => last'.op \in {"append", "remove"}]_vars

\* and an assignment or clear before the first append keeps it empty
C39_ResetAfterAssignment ==
    /\ last.op = "reset"
    /\ actors("H") = <<>>
    /\ def_actors["H"].l = <<>>
    /\ \E a \in POOL : parent[a] = "H"

\* a reset() after which the handler still has the sub-actor that was
\* appended to its default list
C39_ResetLeavesSubActors ==
    /\ last.op = "reset"
    /\ actors("H") # <<>>
    /\ actors("H") = def_actors["H"].l

====
